---- MODULE Spec2Model ----
(***************************************************************************)
(* Model of the restaurant-data pipeline of biggerbellyboys                *)
(* (.github/scripts/update-restaurant-data.js): fetchCSVWithRetry, the     *)
(* per-row loop of main(), the coordinate-error-rate check, the write of   *)
(* data/restaurants.json and the whole-pipeline retry loop.                *)
(*                                                                         *)
(* Text is a sequence of tokens.  A token is one character, or one of a    *)
(* few multi-character atoms ("#ERROR!", "/video/", "tiktok.com", ...)     *)
(* that the code only ever matches as a whole.  Numbers are whole degrees. *)
(***************************************************************************)
EXTENDS Integers, Sequences, FiniteSets, TLC

\* ------------------------------------------------------------------------
\* Bounds of the model (not program constants)
\* ------------------------------------------------------------------------
\* longest export whose rows are drawn freely from RowPool
MaxRows == 2
\* length of the long export
LongRows == 22
\* number of scheduled invocations of the script in SpecRerun
MaxRuns == 2
\* longest export for which a further invocation is followed (its rows are
\* drawn from RerunRows)
MaxRerunRows == 1
\* longest text after the header line given to parseCSV in SpecParse
MaxBody == 5

\* ------------------------------------------------------------------------
\* JavaScript values
\* ------------------------------------------------------------------------
\* null, undefined and '' are all falsy; a text-valued result that the code
\* only tests for truthiness is the empty text when it is null
Null == <<>>

\* a Number: NaN, or a whole value
NaN == [nan |-> TRUE, val |-> 0]

Num(n) == [nan |-> FALSE, val |-> n]

IsNaN(x) == x.nan

Truthy(s) == s # <<>>

Digits == <<"0", "1", "2", "3", "4", "5", "6", "7", "8", "9">>

IsDigit(c) == \E d \in 1..10 : Digits[d] = c

DigitVal(c) == (CHOOSE d \in 1..10 : Digits[d] = c) - 1

IsSpace(c) == c \in {" ", "\n", "\t"}

\* the formula-error markers of the regular expression in fetchCSVWithRetry
Sentinels == {"#NAME?", "#ERROR!", "#REF!", "#VALUE!"}

RECURSIVE TrimLeft(_)
TrimLeft(s) == IF s # <<>> /\ IsSpace(Head(s)) THEN TrimLeft(Tail(s)) ELSE s

RECURSIVE TrimRight(_)
TrimRight(s) ==
    IF s # <<>> /\ IsSpace(s[Len(s)]) THEN TrimRight(SubSeq(s, 1, Len(s) - 1)) ELSE s

\* String.prototype.trim
Trim(s) == TrimRight(TrimLeft(s))

UpperCase ==
    <<"A", "B", "C", "D", "E", "F", "G", "H", "I", "J", "K", "L", "M",
      "N", "O", "P", "Q", "R", "S", "T", "U", "V", "W", "X", "Y", "Z">>

LowerCase ==
    <<"a", "b", "c", "d", "e", "f", "g", "h", "i", "j", "k", "l", "m",
      "n", "o", "p", "q", "r", "s", "t", "u", "v", "w", "x", "y", "z">>

\* String.prototype.toLowerCase
ToLowerCase(s) ==
    [k \in 1..Len(s) |->
        IF \E i \in 1..26 : UpperCase[i] = s[k]
        THEN LowerCase[CHOOSE i \in 1..26 : UpperCase[i] = s[k]]
        ELSE s[k]]

\* String.prototype.toUpperCase
ToUpperCase(s) ==
    [k \in 1..Len(s) |->
        IF \E i \in 1..26 : LowerCase[i] = s[k]
        THEN UpperCase[CHOOSE i \in 1..26 : LowerCase[i] = s[k]]
        ELSE s[k]]

\* String.prototype.includes for a one-token needle
Includes(s, tok) == \E k \in 1..Len(s) : s[k] = tok

\* String.prototype.split(',')
RECURSIVE SplitComma(_)
SplitComma(s) ==
    IF \A k \in 1..Len(s) : s[k] # ","
    THEN <<s>>
    ELSE LET p == CHOOSE k \in 1..Len(s) : s[k] = "," /\ \A j \in 1..(k - 1) : s[j] # ","
         IN  <<SubSeq(s, 1, p - 1)>> \o SplitComma(SubSeq(s, p + 1, Len(s)))

\* the decimal digits of a natural number
RECURSIVE NatToText(_)
NatToText(n) == IF n < 10 THEN <<Digits[n + 1]>> ELSE NatToText(n \div 10) \o <<Digits[(n % 10) + 1]>>

\* `${x}` for a whole number x
NumToText(x) == IF x < 0 THEN <<"-">> \o NatToText(0 - x) ELSE NatToText(x)

\* value of the longest prefix of s made of digits, continuing from acc
RECURSIVE DigitsValue(_, _)
DigitsValue(s, acc) ==
    IF s # <<>> /\ IsDigit(Head(s)) THEN DigitsValue(Tail(s), 10 * acc + DigitVal(Head(s))) ELSE acc

\* parseFloat on whole numbers: leading white space, an optional sign, digits;
\* whatever follows the digits is ignored; NaN when there is no digit
ParseFloat(s) ==
    LET t == TrimLeft(s)
        neg == t # <<>> /\ Head(t) = "-"
        u == IF t # <<>> /\ Head(t) \in {"-", "+"} THEN Tail(t) ELSE t
    IN  IF u = <<>> \/ ~IsDigit(Head(u)) THEN NaN
        ELSE IF neg THEN Num(0 - DigitsValue(u, 0)) ELSE Num(DigitsValue(u, 0))

\* ------------------------------------------------------------------------
\* Pure functions of update-restaurant-data.js
\* ------------------------------------------------------------------------
\* validateCoordinates without the test of the bounds
validateCoordinatesUnbounded(geocodeScript) ==
    IF ~Truthy(geocodeScript) \/ Includes(geocodeScript, "#NAME?") \/ Includes(geocodeScript, "#ERROR!")
    THEN <<>>
    ELSE LET parts == SplitComma(geocodeScript)
             coords == [k \in 1..Len(parts) |-> Trim(parts[k])]
         IN  IF Len(coords) = 2
             THEN LET lat == ParseFloat(coords[1])
                      lng == ParseFloat(coords[2])
                  IN  IF ~IsNaN(lat) /\ ~IsNaN(lng)
                      THEN <<[lat |-> lat.val, lng |-> lng.val]>>
                      ELSE <<>>
             ELSE <<>>

\* validateCoordinates: <<>> for null, <<[lat, lng]>> for { lat, lng }
validateCoordinates(geocodeScript) ==
    IF ~Truthy(geocodeScript) \/ Includes(geocodeScript, "#NAME?") \/ Includes(geocodeScript, "#ERROR!")
    THEN <<>>
    ELSE LET parts == SplitComma(geocodeScript)
             coords == [k \in 1..Len(parts) |-> Trim(parts[k])]
         IN  IF Len(coords) = 2
             THEN LET lat == ParseFloat(coords[1])
                      lng == ParseFloat(coords[2])
                  IN  IF ~IsNaN(lat) /\ ~IsNaN(lng) /\ lat.val >= -90 /\ lat.val <= 90
                         /\ lng.val >= -180 /\ lng.val <= 180
                      THEN <<[lat |-> lat.val, lng |-> lng.val]>>
                      ELSE <<>>
             ELSE <<>>

\* the digits captured by /\/video\/(\d+)/, <<>> when the pattern does not match
VideoId(url) ==
    IF \E k \in 1..(Len(url) - 1) : url[k] = "/video/" /\ IsDigit(url[k + 1])
    THEN LET p == CHOOSE k \in 1..(Len(url) - 1) :
                      /\ url[k] = "/video/" /\ IsDigit(url[k + 1])
                      /\ \A j \in 1..(k - 1) : ~(url[j] = "/video/" /\ IsDigit(url[j + 1]))
             e == CHOOSE k \in (p + 1)..Len(url) :
                      /\ \A j \in (p + 1)..k : IsDigit(url[j])
                      /\ (k = Len(url) \/ ~IsDigit(url[k + 1]))
         IN  SubSeq(url, p + 1, e)
    ELSE <<>>

\* getCachedThumbnailPath: Null, or thumbnails/<id>.jpeg
getCachedThumbnailPath(tikTokVideoUrl) ==
    IF ~Truthy(tikTokVideoUrl) THEN Null
    ELSE IF VideoId(tikTokVideoUrl) # <<>>
         THEN <<"thumbnails/">> \o VideoId(tikTokVideoUrl) \o <<".jpeg">>
         ELSE Null

\* standardizeTag
standardizeTag(tag) == IF Truthy(tag) THEN Trim(ToLowerCase(tag)) ELSE <<>>

\* Array.prototype.filter(tag => tag)
RECURSIVE FilterTruthy(_)
FilterTruthy(list) ==
    IF list = <<>> THEN <<>>
    ELSE (IF Truthy(Head(list)) THEN <<Head(list)>> ELSE <<>>) \o FilterTruthy(Tail(list))

\* the tags of a record: row.Tags split at the commas, each part through
\* standardizeTag, the empty ones left out
ProcessTags(tagsCell) ==
    IF Truthy(tagsCell)
    THEN FilterTruthy([k \in 1..Len(SplitComma(tagsCell)) |-> standardizeTag(SplitComma(tagsCell)[k])])
    ELSE <<>>

\* parseFloat(row['Bigger Belly Rating']) || 0
ProcessRating(ratingCell) ==
    LET rating == ParseFloat(ratingCell)
    IN  IF IsNaN(rating) \/ rating.val = 0 THEN 0 ELSE rating.val

\* the table of region names in parseLocationData, as <<code, name>> pairs
LOCATION_MAPPINGS ==
    {<<<<"A", "L">>, <<"A", "l", "a", "b", "a", "m", "a">>>>,
     <<<<"A", "K">>, <<"A", "l", "a", "s", "k", "a">>>>,
     <<<<"A", "Z">>, <<"A", "r", "i", "z", "o", "n", "a">>>>,
     <<<<"A", "R">>, <<"A", "r", "k", "a", "n", "s", "a", "s">>>>,
     <<<<"C", "A">>, <<"C", "a", "l", "i", "f", "o", "r", "n", "i", "a">>>>,
     <<<<"C", "O">>, <<"C", "o", "l", "o", "r", "a", "d", "o">>>>,
     <<<<"C", "T">>, <<"C", "o", "n", "n", "e", "c", "t", "i", "c", "u", "t">>>>,
     <<<<"D", "E">>, <<"D", "e", "l", "a", "w", "a", "r", "e">>>>,
     <<<<"F", "L">>, <<"F", "l", "o", "r", "i", "d", "a">>>>,
     <<<<"G", "A">>, <<"G", "e", "o", "r", "g", "i", "a">>>>,
     <<<<"H", "I">>, <<"H", "a", "w", "a", "i", "i">>>>,
     <<<<"I", "D">>, <<"I", "d", "a", "h", "o">>>>,
     <<<<"I", "L">>, <<"I", "l", "l", "i", "n", "o", "i", "s">>>>,
     <<<<"I", "N">>, <<"I", "n", "d", "i", "a", "n", "a">>>>,
     <<<<"I", "A">>, <<"I", "o", "w", "a">>>>,
     <<<<"K", "S">>, <<"K", "a", "n", "s", "a", "s">>>>,
     <<<<"K", "Y">>, <<"K", "e", "n", "t", "u", "c", "k", "y">>>>,
     <<<<"L", "A">>, <<"L", "o", "u", "i", "s", "i", "a", "n", "a">>>>,
     <<<<"M", "E">>, <<"M", "a", "i", "n", "e">>>>,
     <<<<"M", "D">>, <<"M", "a", "r", "y", "l", "a", "n", "d">>>>,
     <<<<"M", "A">>, <<"M", "a", "s", "s", "a", "c", "h", "u", "s", "e", "t", "t", "s">>>>,
     <<<<"M", "I">>, <<"M", "i", "c", "h", "i", "g", "a", "n">>>>,
     <<<<"M", "N">>, <<"M", "i", "n", "n", "e", "s", "o", "t", "a">>>>,
     <<<<"M", "S">>, <<"M", "i", "s", "s", "i", "s", "s", "i", "p", "p", "i">>>>,
     <<<<"M", "O">>, <<"M", "i", "s", "s", "o", "u", "r", "i">>>>,
     <<<<"M", "T">>, <<"M", "o", "n", "t", "a", "n", "a">>>>,
     <<<<"N", "E">>, <<"N", "e", "b", "r", "a", "s", "k", "a">>>>,
     <<<<"N", "V">>, <<"N", "e", "v", "a", "d", "a">>>>,
     <<<<"N", "H">>, <<"N", "e", "w", " ", "H", "a", "m", "p", "s", "h", "i", "r", "e">>>>,
     <<<<"N", "J">>, <<"N", "e", "w", " ", "J", "e", "r", "s", "e", "y">>>>,
     <<<<"N", "M">>, <<"N", "e", "w", " ", "M", "e", "x", "i", "c", "o">>>>,
     <<<<"N", "Y">>, <<"N", "e", "w", " ", "Y", "o", "r", "k">>>>,
     <<<<"N", "C">>, <<"N", "o", "r", "t", "h", " ", "C", "a", "r", "o", "l", "i", "n", "a">>>>,
     <<<<"N", "D">>, <<"N", "o", "r", "t", "h", " ", "D", "a", "k", "o", "t", "a">>>>,
     <<<<"O", "H">>, <<"O", "h", "i", "o">>>>,
     <<<<"O", "K">>, <<"O", "k", "l", "a", "h", "o", "m", "a">>>>,
     <<<<"O", "R">>, <<"O", "r", "e", "g", "o", "n">>>>,
     <<<<"P", "A">>, <<"P", "e", "n", "n", "s", "y", "l", "v", "a", "n", "i", "a">>>>,
     <<<<"R", "I">>, <<"R", "h", "o", "d", "e", " ", "I", "s", "l", "a", "n", "d">>>>,
     <<<<"S", "C">>, <<"S", "o", "u", "t", "h", " ", "C", "a", "r", "o", "l", "i", "n", "a">>>>,
     <<<<"S", "D">>, <<"S", "o", "u", "t", "h", " ", "D", "a", "k", "o", "t", "a">>>>,
     <<<<"T", "N">>, <<"T", "e", "n", "n", "e", "s", "s", "e", "e">>>>,
     <<<<"T", "X">>, <<"T", "e", "x", "a", "s">>>>,
     <<<<"U", "T">>, <<"U", "t", "a", "h">>>>,
     <<<<"V", "T">>, <<"V", "e", "r", "m", "o", "n", "t">>>>,
     <<<<"V", "A">>, <<"V", "i", "r", "g", "i", "n", "i", "a">>>>,
     <<<<"W", "A">>, <<"W", "a", "s", "h", "i", "n", "g", "t", "o", "n">>>>,
     <<<<"W", "V">>, <<"W", "e", "s", "t", " ", "V", "i", "r", "g", "i", "n", "i", "a">>>>,
     <<<<"W", "I">>, <<"W", "i", "s", "c", "o", "n", "s", "i", "n">>>>,
     <<<<"W", "Y">>, <<"W", "y", "o", "m", "i", "n", "g">>>>,
     <<<<"P", "R">>, <<"P", "u", "e", "r", "t", "o", " ", "R", "i", "c", "o">>>>,
     <<<<"D", "C">>, <<"D", "i", "s", "t", "r", "i", "c", "t", " ", "o", "f", " ", "C", "o", "l", "u", "m", "b", "i", "a">>>>}

\* LOCATION_MAPPINGS[key] || region
LookupRegion(key, region) ==
    IF \E p \in LOCATION_MAPPINGS : p[1] = key
    THEN (CHOOSE p \in LOCATION_MAPPINGS : p[1] = key)[2]
    ELSE region

\* parseLocationData looking the region up as it is written
parseLocationDataCaseSensitive(locationString) ==
    IF ~Truthy(locationString)
    THEN [city |-> <<>>, region |-> <<>>, fullLocation |-> <<>>, cityStandardized |-> <<>>]
    ELSE LET split == SplitComma(locationString)
             parts == [k \in 1..Len(split) |-> Trim(split[k])]
         IN  IF Len(parts) >= 2
             THEN LET city == parts[1]
                      region == parts[2]
                      fullRegion == LookupRegion(region, region)
                  IN  [city |-> city,
                       region |-> region,
                       fullRegion |-> fullRegion,
                       fullLocation |-> city \o <<",", " ">> \o fullRegion,
                       originalLocation |-> locationString,
                       cityStandardized |-> standardizeTag(city),
                       fullRegionStandardized |-> standardizeTag(fullRegion),
                       fullLocationStandardized |-> standardizeTag(city \o <<",", " ">> \o fullRegion)]
             ELSE [city |-> locationString,
                   region |-> <<>>,
                   fullRegion |-> <<>>,
                   fullLocation |-> locationString,
                   originalLocation |-> locationString,
                   cityStandardized |-> standardizeTag(locationString),
                   fullRegionStandardized |-> <<>>,
                   fullLocationStandardized |-> standardizeTag(locationString)]

\* parseLocationData
parseLocationData(locationString) ==
    IF ~Truthy(locationString)
    THEN [city |-> <<>>, region |-> <<>>, fullLocation |-> <<>>, cityStandardized |-> <<>>]
    ELSE LET split == SplitComma(locationString)
             parts == [k \in 1..Len(split) |-> Trim(split[k])]
         IN  IF Len(parts) >= 2
             THEN LET city == parts[1]
                      region == parts[2]
                      fullRegion == LookupRegion(ToUpperCase(region), region)
                  IN  [city |-> city,
                       region |-> region,
                       fullRegion |-> fullRegion,
                       fullLocation |-> city \o <<",", " ">> \o fullRegion,
                       originalLocation |-> locationString,
                       cityStandardized |-> standardizeTag(city),
                       fullRegionStandardized |-> standardizeTag(fullRegion),
                       fullLocationStandardized |-> standardizeTag(city \o <<",", " ">> \o fullRegion)]
             ELSE [city |-> locationString,
                   region |-> <<>>,
                   fullRegion |-> <<>>,
                   fullLocation |-> locationString,
                   originalLocation |-> locationString,
                   cityStandardized |-> standardizeTag(locationString),
                   fullRegionStandardized |-> <<>>,
                   fullLocationStandardized |-> standardizeTag(locationString)]

\* number of matches of /#NAME\?|#ERROR!|#REF!|#VALUE!/g in one cell
RECURSIVE CountSentinels(_)
CountSentinels(s) ==
    IF s = <<>> THEN 0
    ELSE (IF Head(s) \in Sentinels THEN 1 ELSE 0) + CountSentinels(Tail(s))

RowErrors(row) ==
    CountSentinels(row.Restaurant) + CountSentinels(row.Address)
        + CountSentinels(row.TikTokVideo) + CountSentinels(row.GeoCodeScript)
        + CountSentinels(row.Tags) + CountSentinels(row.Reviewer)
        + CountSentinels(row.Rating) + CountSentinels(row.TikTokThumbnail)
        + CountSentinels(row.DatePosted) + CountSentinels(row.Location)
        + CountSentinels(row.GoogleMapsLink)

\* errorCount of fetchCSVWithRetry, over the cells of the body
RECURSIVE errorCount(_)
errorCount(body) ==
    IF body = <<>> THEN 0 ELSE RowErrors(Head(body)) + errorCount(Tail(body))

\* ------------------------------------------------------------------------
\* The collaborators: what each service answers when it is reachable
\* ------------------------------------------------------------------------
AddrMain == <<"M", "n">>
AddrElm == <<"E", "l">>
AddrOdd == <<"Q", "q">>

\* the JSON of the geocoding service for an address
GoogleGeocode(address) ==
    IF address = AddrMain THEN [status |-> "OK", results |-> <<[lat |-> 40, lng |-> -74]>>]
    ELSE IF address = AddrElm THEN [status |-> "OK", results |-> <<[lat |-> -33, lng |-> 151]>>]
    ELSE IF address = AddrOdd THEN [status |-> "OK", results |-> <<[lat |-> 95, lng |-> 10]>>]
    ELSE [status |-> "ZERO_RESULTS", results |-> <<>>]

\* how a call of a collaborator can go: answered, answered with a non-OK HTTP
\* status, or failed in transport
CallOutcomes == {"up", "http", "net"}

\* geocodeAddress(address, apiKey) when the call goes as svc
geocodeAddress(address, svc) ==
    IF ~Truthy(address) THEN Null
    ELSE IF svc = "net" THEN Null
    ELSE IF svc = "http" THEN Null
    ELSE LET json == GoogleGeocode(address)
         IN  IF json.status = "OK" /\ Len(json.results) > 0
             THEN NumToText(json.results[1].lat) \o <<",", " ">> \o NumToText(json.results[1].lng)
             ELSE Null

VideoA == <<"https://", "tiktok.com", "/video/", "7", "1">>
VideoPrivate == <<"https://", "tiktok.com", "/video/", "9">>
VideoOther == <<"https://", "x", "/video/", "7", "1">>

\* thumbnail_url of the oEmbed JSON for a video URL (<<>> when absent)
TikTokOEmbed(url) ==
    IF VideoId(url) = <<>> \/ url = VideoPrivate THEN <<>>
    ELSE <<"https://", "cdn", "/">> \o VideoId(url)

\* fetchTikTokThumbnail(url) when the call goes as svc
fetchTikTokThumbnail(url, svc) ==
    IF ~Truthy(url) \/ ~Includes(url, "tiktok.com") THEN Null
    ELSE IF svc = "net" THEN Null
    ELSE IF svc = "http" THEN Null
    ELSE TikTokOEmbed(url)

\* result of downloadAndSaveThumbnail(thumbnailUrl, localPath) when the call
\* goes as svc: TRUE when the file has been written
downloadAndSaveThumbnail(thumbnailUrl, svc) ==
    IF svc = "net" THEN FALSE
    ELSE IF svc = "http" THEN FALSE
    ELSE TRUE

\* ------------------------------------------------------------------------
\* The export: rows as parseCSV returns them (every value already trimmed)
\* ------------------------------------------------------------------------
\* a row with its optional columns Tags, Reviewer, Bigger Belly Rating,
\* TikTok Thumbnail, Date of Posted Video, Location and Google Maps Link
\* empty or not in the export
Row(name, address, video, script) ==
    [Restaurant |-> name, Address |-> address, TikTokVideo |-> video, GeoCodeScript |-> script,
     Tags |-> <<>>, Reviewer |-> <<>>, Rating |-> <<>>, TikTokThumbnail |-> <<>>,
     DatePosted |-> <<>>, Location |-> <<>>, GoogleMapsLink |-> <<>>]

\* Location cells: a known region code in lower case, a two-letter token that
\* is not in the table, and a city alone
LocationKnown == <<"R", ",", " ", "t", "x">>
LocationUnknown == <<"R", ",", "z", "z">>
LocationCity == <<"R">>

Script4074 == <<"4", "0", ",", "-", "7", "4">>

\* a TikTok Thumbnail cell holding a well-formed https URL
ThumbnailCell == <<"https://", "i", ".", "c">>

\* row a has every optional column filled: tags "X, x,,y", rating "15",
\* location "R, tx"
RowA ==
    [Row(<<"a">>, AddrMain, VideoA, Script4074) EXCEPT
        !.Tags = <<"X", ",", " ", "x", ",", ",", "y">>,
        !.Reviewer = <<"V">>,
        !.Rating = <<"1", "5">>,
        !.TikTokThumbnail = ThumbnailCell,
        !.DatePosted = <<"1">>,
        !.Location = LocationKnown,
        !.GoogleMapsLink = <<"https://", "g">>]
\* row b has a video and no other optional column
RowB == Row(<<"b">>, AddrElm, VideoPrivate, <<>>)
\* a row with a rating of 7
RowRated ==
    [Row(<<"r">>, AddrElm, VideoA, <<>>) EXCEPT
        !.Rating = <<"7">>, !.Tags = <<"y">>, !.Location = LocationUnknown]
\* a row with a thumbnail URL and no video
RowNoVideo == [Row(<<"n">>, AddrMain, <<>>, <<>>) EXCEPT !.TikTokThumbnail = ThumbnailCell]
RowNoAddress == Row(<<"c">>, <<>>, VideoA, Script4074)
RowNoName == Row(<<>>, AddrMain, VideoA, <<>>)
RowOdd == Row(<<"e">>, AddrOdd, VideoA, <<>>)
\* a row of the long exports: its thumbnail is never fetched (the URL is not a
\* tiktok.com one), the row is kept only when thumbnails/71.jpeg exists
RowLong ==
    [Row(<<"h">>, AddrMain, VideoOther, Script4074) EXCEPT
        !.Rating = <<"a", "b", "c">>, !.Location = LocationCity]

RowPool == {RowA, RowB, RowNoName, RowOdd}

\* the rows of the exports for which a further invocation is followed
RerunRows == {RowA}

\* all sequences over S of length n
RECURSIVE SeqsOfLen(_, _)
SeqsOfLen(S, n) ==
    IF n = 0 THEN {<<>>}
    ELSE {<<x>> \o t : x \in S, t \in SeqsOfLen(S, n - 1)}

ShortExports == UNION {SeqsOfLen(RowPool, n) : n \in 0..MaxRows}

\* k rows with an address followed by n-k rows without
LongExport(n, k) == [j \in 1..n |-> IF j <= k THEN RowLong ELSE RowNoAddress]

\* ten rows, two of them without an address
ScenarioExport == LongExport(10, 8)

\* an export of the two rows that are in no other
OptionalExport == <<RowRated, RowNoVideo>>

LongExports == {LongExport(LongRows, LongRows), ScenarioExport, OptionalExport}

Exports == ShortExports \cup LongExports

\* a fetch during which the formula cells of one column evaluate to an error
\* marker
Corrupted(body, column) ==
    [j \in 1..Len(body) |->
        IF column = "Address" THEN [body[j] EXCEPT !.Address = <<"#ERROR!">>]
        ELSE [body[j] EXCEPT !.GeoCodeScript = <<"#NAME?">>]]

FormulaColumns == {"Address", "GeoCodeScript"}

\* ------------------------------------------------------------------------
\* Program constants
\* ------------------------------------------------------------------------
\* fetchCSVWithRetry(url, maxRetries = 5)
maxRetries == 5
\* for (let mainAttempt = 1; mainAttempt <= 3; mainAttempt++)
MainAttempts == 3
\* coordinateErrors > 10
MinCoordinateErrors == 10
\* 10000 * attempt
FetchBaseDelay == 10000
\* setTimeout(resolve, 30000)
CoolDown == 30000

\* ------------------------------------------------------------------------
\* State
\* ------------------------------------------------------------------------
VARIABLES
    csvUrl,             \* process.env.GOOGLE_SHEETS_URL is set
    googleApiKey,       \* process.env.GOOGLE_MAPS_API_KEY is set
    sheet,              \* the rows of the spreadsheet behind the URL
    pc,                 \* where main() is
    exitCode,           \* exit status of the process, -1 while it runs
    caught,             \* the error the catch block of main has logged last
    mainAttempt,        \* loop variable of main
    attempt,            \* loop variable of fetchCSVWithRetry
    response,           \* how the last fetch of the export went
    waitTime,           \* the delay of the setTimeout in progress, 0 if none
    rawData,            \* parseCSV(csvText)
    rowIndex,           \* number of rows of rawData the loop has taken
    restaurants,        \* the array restaurants
    validCount, skippedCount, coordinateErrors,
    thumbnailFiles,     \* paths that exist under thumbnails/
    dataDir,            \* the directory data/ exists
    outputFile,         \* data/restaurants.json
    clock,              \* the time new Date() gives during this invocation
    run,                \* number of the invocation of the script
    runStartFile,       \* data/restaurants.json when the invocation began
    geoReached,         \* the geocoder has answered a call of this invocation
    steady,             \* no transient failure in this invocation so far
    steadyBefore,       \* no transient failure in the previous invocation
    turnCalls,          \* the requests of the last turn of the row loop
    geocodeCache,       \* the browser client's geocodeCache: Null, or <<cache>>
    validationResult,   \* what the client's row validation returned last
    csvInput,           \* the text given to parseCSV
    parsed,             \* <<>> before parseCSV has returned, <<data>> after
    loaded,             \* the page's restaurants array is filled
    currentPage,        \* the page's currentPage
    currentSort,        \* the page's currentSort
    selectedTags,       \* the page's selectedTags, in insertion order
    sliderValue,        \* value of the rating slider
    sliderMin,          \* min of the rating slider
    currentSortedRestaurants,  \* the sort option window.currentSortedRestaurants was built by
    totalFilteredRestaurants,  \* the page's totalFilteredRestaurants
    search,             \* the parameters of window.location.search
    entries,            \* the session history: the URLs of its entries
    historyIndex,       \* index of the current entry
    onMap,              \* indices of the restaurants whose marker is on the map
    displayed,          \* indices of the restaurants whose card is in the list
    handled,            \* the handler that ran last
    pushed              \* that handler called history.pushState

vars == <<csvUrl, googleApiKey, sheet, pc, exitCode, caught, mainAttempt, attempt, response, waitTime,
          rawData, rowIndex, restaurants, validCount, skippedCount, coordinateErrors,
          thumbnailFiles, dataDir, outputFile, clock, run, runStartFile, geoReached,
          steady, steadyBefore, turnCalls, geocodeCache, validationResult, csvInput, parsed,
          loaded, currentPage, currentSort, selectedTags, sliderValue, sliderMin,
          currentSortedRestaurants, totalFilteredRestaurants, search, entries, historyIndex,
          onMap, displayed, handled, pushed>>

config == <<csvUrl, googleApiKey, sheet>>
locals == <<rawData, rowIndex, restaurants, validCount, skippedCount, coordinateErrors>>
files == <<thumbnailFiles, dataDir, outputFile>>
history == <<run, runStartFile, geoReached, steady, steadyBefore>>
parser == <<csvInput, parsed>>
browser == <<loaded, currentPage, currentSort, selectedTags, sliderValue, sliderMin,
             currentSortedRestaurants, totalFilteredRestaurants, search, entries, historyIndex,
             onMap, displayed, handled, pushed>>
client == <<geocodeCache, validationResult, parser, browser>>
pipeline == <<config, pc, exitCode, caught, mainAttempt, attempt, response, waitTime, locals, files,
              clock, history, turnCalls>>

\* no request made: each of the three is "none", "ok" or "failed"
NoCalls == [geocode |-> "none", oembed |-> "none", download |-> "none"]

NoFile == [state |-> "absent", data |-> <<>>]
PartialFile == [state |-> "partial", data |-> <<>>]
JsonFile(doc) == [state |-> "complete", data |-> <<doc>>]

\* a dataset left by an earlier invocation
EarlierDataset ==
    JsonFile([version |-> 0, lastUpdated |-> 0, totalRestaurants |-> 0, restaurants |-> <<>>])

\* a URL without search parameters; a parameter is <<>> when absent and
\* <<value>> when present
NoParams == [page |-> <<>>, sort |-> <<>>, tags |-> <<>>, rating |-> <<>>]

\* the page is not open
BrowserIdle ==
    /\ loaded = FALSE
    /\ currentPage = 1
    /\ currentSort = "newest"
    /\ selectedTags = <<>>
    /\ sliderValue = 0
    /\ sliderMin = 0
    /\ currentSortedRestaurants = "none"
    /\ totalFilteredRestaurants = 0
    /\ search = NoParams
    /\ entries = <<>>
    /\ historyIndex = 0
    /\ onMap = {}
    /\ displayed = {}
    /\ handled = "none"
    /\ pushed = FALSE

Init ==
    /\ csvUrl \in BOOLEAN
    /\ googleApiKey \in BOOLEAN
    /\ sheet \in Exports
    /\ pc = "Idle"
    /\ exitCode = -1
    /\ caught = "none"
    /\ mainAttempt = 1
    /\ attempt = 1
    /\ response = "none"
    /\ waitTime = 0
    /\ rawData = <<>>
    /\ rowIndex = 0
    /\ restaurants = <<>>
    /\ validCount = 0
    /\ skippedCount = 0
    /\ coordinateErrors = 0
    /\ \/ /\ thumbnailFiles = {}
          /\ outputFile = NoFile
       \/ /\ thumbnailFiles = {getCachedThumbnailPath(VideoA), getCachedThumbnailPath(VideoPrivate)}
          /\ outputFile = EarlierDataset
    /\ dataDir = (outputFile # NoFile)
    /\ clock = 1
    /\ run = 1
    /\ runStartFile = outputFile
    /\ geoReached = FALSE
    /\ steady = TRUE
    /\ steadyBefore = TRUE
    /\ turnCalls = NoCalls
    /\ geocodeCache = Null
    /\ validationResult = <<>>
    /\ csvInput = <<>>
    /\ parsed = <<>>
    /\ BrowserIdle

\* ------------------------------------------------------------------------
\* main(): start-up
\* ------------------------------------------------------------------------
\* a start-up that checks the API key only
StartNoUrlCheck ==
    /\ pc = "Idle"
    /\ IF googleApiKey
       THEN /\ pc' = "Fetching"
            /\ exitCode' = exitCode
       ELSE /\ pc' = "Crashed"
            /\ exitCode' = 1
    /\ UNCHANGED <<config, client, turnCalls, caught, mainAttempt, attempt, response, waitTime, locals, files, clock,
                   history>>

\* the two environment checks; a throw here rejects main(), which nothing
\* catches, and the process dies with status 1
Start ==
    /\ pc = "Idle"
    /\ IF csvUrl /\ googleApiKey
       THEN /\ pc' = "Fetching"
            /\ exitCode' = exitCode
       ELSE /\ pc' = "Crashed"
            /\ exitCode' = 1
    /\ UNCHANGED <<config, client, turnCalls, caught, mainAttempt, attempt, response, waitTime, locals, files, clock,
                   history>>

\* a catch block that goes round the loop without the 30 s wait
CatchPcNoWait == IF mainAttempt = MainAttempts THEN "Exited" ELSE "Fetching"

\* where the catch block of main leaves main: process.exit(1) on the last
\* attempt, else the 30 s wait
CatchPc == IF mainAttempt = MainAttempts THEN "Exited" ELSE "Retrying"

\* the catch block of main, for an error thrown in the try block, whose
\* block-scoped variables are gone

Catch(error) ==
    /\ pc' = CatchPc
    /\ caught' = error
    /\ exitCode' = IF mainAttempt = MainAttempts THEN 1 ELSE exitCode
    /\ waitTime' = IF mainAttempt = MainAttempts THEN 0 ELSE CoolDown
    /\ rawData' = <<>>
    /\ rowIndex' = 0
    /\ restaurants' = <<>>
    /\ validCount' = 0
    /\ skippedCount' = 0
    /\ coordinateErrors' = 0

\* a loop of main that does not count its attempts
CoolDownDoneUncounted ==
    /\ pc = "Retrying"
    /\ pc' = "Fetching"
    /\ mainAttempt' = mainAttempt
    /\ attempt' = 1
    /\ response' = "none"
    /\ waitTime' = 0
    /\ caught' = "none"
    /\ UNCHANGED <<config, client, turnCalls, exitCode, locals, files, clock, history>>

\* the 30 s timer fires and the for loop of main goes round
CoolDownDone ==
    /\ pc = "Retrying"
    /\ pc' = "Fetching"
    /\ mainAttempt' = mainAttempt + 1
    /\ attempt' = 1
    /\ response' = "none"
    /\ waitTime' = 0
    /\ caught' = "none"
    /\ UNCHANGED <<config, client, turnCalls, exitCode, locals, files, clock, history>>

\* ------------------------------------------------------------------------
\* fetchCSVWithRetry
\* ------------------------------------------------------------------------
\* what main does with the text fetchCSVWithRetry returns
BeginProcessing(csvText) ==
    /\ pc' = "Processing"
    /\ rawData' = csvText
    /\ rowIndex' = 0
    /\ restaurants' = <<>>
    /\ validCount' = 0
    /\ skippedCount' = 0
    /\ coordinateErrors' = 0
    /\ waitTime' = 0
    /\ UNCHANGED <<exitCode, caught>>

\* a wait that doubles from one attempt to the next
BackoffExponential ==
    /\ pc' = "FetchBackoff"
    /\ waitTime' = FetchBaseDelay * (2 ^ (attempt - 1))
    /\ UNCHANGED <<exitCode, caught, locals>>

\* a wait that does not hold the next attempt back
BackoffNoBlock ==
    /\ pc' = "Fetching"
    /\ waitTime' = FetchBaseDelay * attempt
    /\ UNCHANGED <<exitCode, caught, locals>>

\* the wait before the next attempt
Backoff ==
    /\ pc' = "FetchBackoff"
    /\ waitTime' = FetchBaseDelay * attempt
    /\ UNCHANGED <<exitCode, caught, locals>>

\* response.ok and no formula error in the body
FetchClean ==
    /\ pc = "Fetching"
    /\ errorCount(sheet) = 0
    /\ response' = "clean"
    /\ BeginProcessing(sheet)
    /\ UNCHANGED <<config, client, turnCalls, mainAttempt, attempt, files, clock, history>>

\* a fetch that returns a body with formula errors at once, on any attempt
FetchCorruptReturns ==
    /\ pc = "Fetching"
    /\ \E column \in FormulaColumns :
        LET csvText == Corrupted(sheet, column)
        IN  /\ errorCount(csvText) # 0
            /\ response' = "corrupt"
            /\ BeginProcessing(csvText)
    /\ steady' = FALSE
    /\ UNCHANGED <<config, client, turnCalls, mainAttempt, attempt, files, clock, run, runStartFile, geoReached, steadyBefore>>

\* a fetch that throws when the last attempt has formula errors in its body
FetchCorruptThrows ==
    /\ pc = "Fetching"
    /\ \E column \in FormulaColumns :
        LET csvText == Corrupted(sheet, column)
        IN  /\ errorCount(csvText) # 0
            /\ response' = "corrupt"
            /\ IF attempt = maxRetries THEN Catch("corrupt") ELSE Backoff
    /\ steady' = FALSE
    /\ UNCHANGED <<config, client, turnCalls, mainAttempt, attempt, files, clock, run, runStartFile, geoReached, steadyBefore>>

\* response.ok, but the body has formula errors
FetchCorrupt ==
    /\ pc = "Fetching"
    /\ \E column \in FormulaColumns :
        LET csvText == Corrupted(sheet, column)
        IN  /\ errorCount(csvText) # 0
            /\ response' = "corrupt"
            /\ IF attempt = maxRetries THEN BeginProcessing(csvText) ELSE Backoff
    /\ steady' = FALSE
    /\ UNCHANGED <<config, client, turnCalls, mainAttempt, attempt, files, clock, run, runStartFile, geoReached, steadyBefore>>

\* a fetch that swallows the error of its last attempt and returns nothing
FetchFailReturns ==
    /\ pc = "Fetching"
    /\ \E kind \in {"http", "net"} :
        /\ response' = kind
        /\ IF attempt = maxRetries THEN BeginProcessing(<<>>) ELSE Backoff
    /\ steady' = FALSE
    /\ UNCHANGED <<config, client, turnCalls, mainAttempt, attempt, files, clock, run, runStartFile, geoReached, steadyBefore>>

\* fetch rejects ("net") or the status is not OK ("http"): both are thrown
\* inside the try of fetchCSVWithRetry
FetchFail ==
    /\ pc = "Fetching"
    /\ \E kind \in {"http", "net"} :
        /\ response' = kind
        /\ IF attempt = maxRetries THEN Catch(kind) ELSE Backoff
    /\ steady' = FALSE
    /\ UNCHANGED <<config, client, turnCalls, mainAttempt, attempt, files, clock, run, runStartFile, geoReached, steadyBefore>>

\* the timer of fetchCSVWithRetry fires
BackoffDone ==
    /\ pc = "FetchBackoff"
    /\ pc' = "Fetching"
    /\ attempt' = attempt + 1
    /\ response' = "none"
    /\ waitTime' = 0
    /\ UNCHANGED <<config, client, turnCalls, exitCode, caught, mainAttempt, locals, files, clock, history>>

\* ------------------------------------------------------------------------
\* main(): one turn of the loop over rawData
\* ------------------------------------------------------------------------
\* the check of the required fields, forgetting the name
MissingRequiredAddressOnly(row) == ~Truthy(Trim(row.Address))

\* the check of the required fields, asking for a reviewer too
MissingRequiredReviewer(row) ==
    ~Truthy(Trim(row.Restaurant)) \/ ~Truthy(Trim(row.Address)) \/ ~Truthy(Trim(row.Reviewer))

\* !row.Restaurant?.trim() || !row.Address?.trim()
MissingRequired(row) == ~Truthy(Trim(row.Restaurant)) \/ ~Truthy(Trim(row.Address))

\* the thumbnail part of the loop body keeping the remote URL after a download
ResolveThumbnailRemote(row, tk, dl, disk) ==
    LET tikTokVideoUrl == Trim(row.TikTokVideo)
        cachedThumbnailPath == getCachedThumbnailPath(tikTokVideoUrl)
        thumbnailExists == Truthy(cachedThumbnailPath) /\ cachedThumbnailPath \in disk
        fetchedThumbnailUrl == fetchTikTokThumbnail(tikTokVideoUrl, tk)
        downloadSuccess == downloadAndSaveThumbnail(fetchedThumbnailUrl, dl)
        asked == IF Includes(tikTokVideoUrl, "tiktok.com") THEN "failed" ELSE "none"
    IN  IF thumbnailExists
        THEN [thumbnailUrl |-> cachedThumbnailPath, disk |-> disk,
              oembed |-> "none", download |-> "none"]
        ELSE IF Truthy(tikTokVideoUrl) /\ Truthy(cachedThumbnailPath)
        THEN IF Truthy(fetchedThumbnailUrl)
             THEN IF downloadSuccess
                  THEN [thumbnailUrl |-> fetchedThumbnailUrl, disk |-> disk \cup {cachedThumbnailPath},
                        oembed |-> "ok", download |-> "ok"]
                  ELSE [thumbnailUrl |-> fetchedThumbnailUrl, disk |-> disk,
                        oembed |-> "ok", download |-> "failed"]
             ELSE [thumbnailUrl |-> Null, disk |-> disk, oembed |-> asked, download |-> "none"]
        ELSE [thumbnailUrl |-> Null, disk |-> disk, oembed |-> "none", download |-> "none"]

\* the thumbnail part of the loop body without the look at the disk
ResolveThumbnailNoStat(row, tk, dl, disk) ==
    LET tikTokVideoUrl == Trim(row.TikTokVideo)
        cachedThumbnailPath == getCachedThumbnailPath(tikTokVideoUrl)
        thumbnailExists == FALSE
        fetchedThumbnailUrl == fetchTikTokThumbnail(tikTokVideoUrl, tk)
        downloadSuccess == downloadAndSaveThumbnail(fetchedThumbnailUrl, dl)
        asked == IF Includes(tikTokVideoUrl, "tiktok.com") THEN "failed" ELSE "none"
    IN  IF thumbnailExists
        THEN [thumbnailUrl |-> cachedThumbnailPath, disk |-> disk,
              oembed |-> "none", download |-> "none"]
        ELSE IF Truthy(tikTokVideoUrl) /\ Truthy(cachedThumbnailPath)
        THEN IF Truthy(fetchedThumbnailUrl)
             THEN IF downloadSuccess
                  THEN [thumbnailUrl |-> cachedThumbnailPath, disk |-> disk \cup {cachedThumbnailPath},
                        oembed |-> "ok", download |-> "ok"]
                  ELSE [thumbnailUrl |-> fetchedThumbnailUrl, disk |-> disk,
                        oembed |-> "ok", download |-> "failed"]
             ELSE [thumbnailUrl |-> Null, disk |-> disk, oembed |-> asked, download |-> "none"]
        ELSE [thumbnailUrl |-> Null, disk |-> disk, oembed |-> "none", download |-> "none"]

\* the thumbnail part of the loop body giving the row up when the download
\* fails
ResolveThumbnailNoFallback(row, tk, dl, disk) ==
    LET tikTokVideoUrl == Trim(row.TikTokVideo)
        cachedThumbnailPath == getCachedThumbnailPath(tikTokVideoUrl)
        thumbnailExists == Truthy(cachedThumbnailPath) /\ cachedThumbnailPath \in disk
        fetchedThumbnailUrl == fetchTikTokThumbnail(tikTokVideoUrl, tk)
        downloadSuccess == downloadAndSaveThumbnail(fetchedThumbnailUrl, dl)
        asked == IF Includes(tikTokVideoUrl, "tiktok.com") THEN "failed" ELSE "none"
    IN  IF thumbnailExists
        THEN [thumbnailUrl |-> cachedThumbnailPath, disk |-> disk,
              oembed |-> "none", download |-> "none"]
        ELSE IF Truthy(tikTokVideoUrl) /\ Truthy(cachedThumbnailPath)
        THEN IF Truthy(fetchedThumbnailUrl)
             THEN IF downloadSuccess
                  THEN [thumbnailUrl |-> cachedThumbnailPath, disk |-> disk \cup {cachedThumbnailPath},
                        oembed |-> "ok", download |-> "ok"]
                  ELSE [thumbnailUrl |-> Null, disk |-> disk,
                        oembed |-> "ok", download |-> "failed"]
             ELSE [thumbnailUrl |-> Null, disk |-> disk, oembed |-> asked, download |-> "none"]
        ELSE [thumbnailUrl |-> Null, disk |-> disk, oembed |-> "none", download |-> "none"]

\* the thumbnail part of the loop body, with the oEmbed call going as tk and
\* the download as dl: the thumbnailUrl it ends with (Null if none), the files
\* under thumbnails/ afterwards, and how the two requests went ("none" for a
\* request that was not made)
ResolveThumbnail(row, tk, dl, disk) ==
    LET tikTokVideoUrl == Trim(row.TikTokVideo)
        cachedThumbnailPath == getCachedThumbnailPath(tikTokVideoUrl)
        thumbnailExists == Truthy(cachedThumbnailPath) /\ cachedThumbnailPath \in disk
        fetchedThumbnailUrl == fetchTikTokThumbnail(tikTokVideoUrl, tk)
        downloadSuccess == downloadAndSaveThumbnail(fetchedThumbnailUrl, dl)
        asked == IF Includes(tikTokVideoUrl, "tiktok.com") THEN "failed" ELSE "none"
    IN  IF thumbnailExists
        THEN [thumbnailUrl |-> cachedThumbnailPath, disk |-> disk,
              oembed |-> "none", download |-> "none"]
        ELSE IF Truthy(tikTokVideoUrl) /\ Truthy(cachedThumbnailPath)
        THEN IF Truthy(fetchedThumbnailUrl)
             THEN IF downloadSuccess
                  THEN [thumbnailUrl |-> cachedThumbnailPath, disk |-> disk \cup {cachedThumbnailPath},
                        oembed |-> "ok", download |-> "ok"]
                  ELSE [thumbnailUrl |-> fetchedThumbnailUrl, disk |-> disk,
                        oembed |-> "ok", download |-> "failed"]
             ELSE [thumbnailUrl |-> Null, disk |-> disk, oembed |-> asked, download |-> "none"]
        ELSE [thumbnailUrl |-> Null, disk |-> disk, oembed |-> "none", download |-> "none"]

\* the object pushed for a row
Restaurant(row, coords, thumbnailUrl) ==
    [reviewer |-> IF Truthy(row.Reviewer) THEN standardizeTag(row.Reviewer) ELSE <<"unknown">>,
     restaurant |-> Trim(row.Restaurant),
     tags |-> ProcessTags(row.Tags),
     location |-> IF Truthy(row.Location) THEN parseLocationData(row.Location).originalLocation ELSE Null,
     locationData |-> parseLocationData(row.Location),
     address |-> Trim(row.Address),
     city |-> standardizeTag(parseLocationData(row.Location).city),
     googleMapsLink |-> Trim(row.GoogleMapsLink),
     rating |-> ProcessRating(row.Rating),
     datePosted |-> Trim(row.DatePosted),
     latitude |-> coords.lat,
     longitude |-> coords.lng,
     tikTokVideo |-> Trim(row.TikTokVideo),
     tikTokThumbnail |-> thumbnailUrl,
     tikTokThumbnailFallback |-> thumbnailUrl]

\* unshift in place of push
PushFront(list, restaurant) == <<restaurant>> \o list

\* restaurants.push(restaurant)
Push(list, restaurant) == Append(list, restaurant)

\* a skip that counts only the coordinate errors
SkipUncounted(isCoordinateError) ==
    /\ skippedCount' = skippedCount
    /\ coordinateErrors' = coordinateErrors + (IF isCoordinateError THEN 1 ELSE 0)
    /\ UNCHANGED <<restaurants, validCount>>

\* skippedCount++ (and coordinateErrors++), then continue
Skip(isCoordinateError) ==
    /\ skippedCount' = skippedCount + 1
    /\ coordinateErrors' = coordinateErrors + (IF isCoordinateError THEN 1 ELSE 0)
    /\ UNCHANGED <<restaurants, validCount>>

\* the ways the calls of one turn of the loop can go: a call that the turn
\* does not make has no outcome to choose
TurnOutcomes(row, disk) ==
    {o \in [geo : CallOutcomes, tk : CallOutcomes, dl : CallOutcomes] :
        LET geocodeResult == geocodeAddress(Trim(row.Address), o.geo)
            located == ~MissingRequired(row) /\ Truthy(geocodeResult)
                          /\ validateCoordinates(geocodeResult) # <<>>
            url == Trim(row.TikTokVideo)
            path == getCachedThumbnailPath(url)
            asks == located /\ Truthy(path) /\ path \notin disk /\ Includes(url, "tiktok.com")
            loads == asks /\ Truthy(fetchTikTokThumbnail(url, o.tk))
        IN  /\ (MissingRequired(row) => o.geo = "up")
            /\ (~asks => o.tk = "up")
            /\ (~loads => o.dl = "up")}

ProcessRow ==
    /\ pc = "Processing"
    /\ rowIndex < Len(rawData)
    /\ rowIndex' = rowIndex + 1
    /\ \E o \in TurnOutcomes(rawData[rowIndex + 1], thumbnailFiles) :
        LET row == rawData[rowIndex + 1]
            geocodeResult == geocodeAddress(Trim(row.Address), o.geo)
            coords == validateCoordinates(geocodeResult)
            thumb == ResolveThumbnail(row, o.tk, o.dl, thumbnailFiles)
        IN  IF MissingRequired(row)
            THEN /\ Skip(FALSE)
                 /\ turnCalls' = NoCalls
                 /\ UNCHANGED <<thumbnailFiles, geoReached, steady>>
            ELSE /\ geoReached' = (geoReached \/ o.geo = "up")
                 /\ steady' = (steady /\ o.geo = "up" /\ o.tk = "up" /\ o.dl = "up")
                 /\ IF ~Truthy(geocodeResult)
                    THEN /\ Skip(TRUE)
                         /\ turnCalls' = [NoCalls EXCEPT !.geocode = "failed"]
                         /\ UNCHANGED thumbnailFiles
                    ELSE IF coords = <<>>
                    THEN /\ Skip(TRUE)
                         /\ turnCalls' = [NoCalls EXCEPT !.geocode = "ok"]
                         /\ UNCHANGED thumbnailFiles
                    ELSE /\ thumbnailFiles' = thumb.disk
                         /\ turnCalls' = [geocode |-> "ok", oembed |-> thumb.oembed,
                                          download |-> thumb.download]
                         /\ IF ~Truthy(thumb.thumbnailUrl)
                            THEN Skip(FALSE)
                            ELSE /\ restaurants' = Push(restaurants, Restaurant(row, coords[1], thumb.thumbnailUrl))
                                 /\ validCount' = validCount + 1
                                 /\ UNCHANGED <<skippedCount, coordinateErrors>>
    /\ UNCHANGED <<config, client, pc, exitCode, caught, mainAttempt, attempt, response, waitTime, rawData,
                   dataDir, outputFile, clock, run, runStartFile, steadyBefore>>

\* the loop is over: the two summary lines are logged
EndPass ==
    /\ pc = "Processing"
    /\ rowIndex = Len(rawData)
    /\ pc' = "Evaluating"
    /\ turnCalls' = NoCalls
    /\ UNCHANGED <<config, client, exitCode, caught, mainAttempt, attempt, response, waitTime, locals,
                   files, clock, history>>

\* ------------------------------------------------------------------------
\* main(): the error-rate check and the write
\* ------------------------------------------------------------------------
\* coordinateErrors / rawData.length > 0.5; 0/0 is NaN, which is not > 0.5
RateExceeded == Len(rawData) > 0 /\ 2 * coordinateErrors > Len(rawData)

\* the check with || in place of &&
TooManyErrorsEither == RateExceeded \/ coordinateErrors > MinCoordinateErrors

\* the check with a floor that no export reaches
TooManyErrorsNever == RateExceeded /\ coordinateErrors > 10 * MinCoordinateErrors

\* the check giving up at the first coordinate error
TooManyErrorsAny == coordinateErrors > 0

\* coordinateErrorRate > 0.5 && coordinateErrors > 10
TooManyErrors == RateExceeded /\ coordinateErrors > MinCoordinateErrors

outputData ==
    [version |-> clock, lastUpdated |-> clock,
     totalRestaurants |-> validCount, restaurants |-> restaurants]

\* the throw of the check, caught by the catch of main
EvaluateRetry ==
    /\ pc = "Evaluating"
    /\ TooManyErrors
    /\ Catch("rate")
    /\ UNCHANGED <<config, client, turnCalls, mainAttempt, attempt, response, files, clock, history>>

\* the write made from inside the loop over the rows
WriteDatasetEarly ==
    /\ pc = "Processing"
    /\ rowIndex < Len(rawData)
    /\ dataDir' = TRUE
    /\ outputFile' = JsonFile(outputData)
    /\ pc' = "Done"
    /\ exitCode' = 0
    /\ UNCHANGED <<config, client, turnCalls, caught, mainAttempt, attempt, response, waitTime, locals,
                   thumbnailFiles, clock, history>>

\* a write that keeps the file of the earlier invocation when no record was
\* built
WriteDatasetNonEmpty ==
    /\ pc = "Evaluating"
    /\ ~TooManyErrors
    /\ dataDir' = TRUE
    /\ outputFile' = IF validCount = 0 THEN outputFile ELSE JsonFile(outputData)
    /\ pc' = "Done"
    /\ exitCode' = 0
    /\ UNCHANGED <<config, client, turnCalls, caught, mainAttempt, attempt, response, waitTime, locals,
                   thumbnailFiles, clock, history>>

\* mkdir data/ if needed, writeFileSync, return
WriteDataset ==
    /\ pc = "Evaluating"
    /\ ~TooManyErrors
    /\ dataDir' = TRUE
    /\ outputFile' = JsonFile(outputData)
    /\ pc' = "Done"
    /\ exitCode' = 0
    /\ UNCHANGED <<config, client, turnCalls, caught, mainAttempt, attempt, response, waitTime, locals,
                   thumbnailFiles, clock, history>>

\* writeFileSync throws: before the file is opened (it is unchanged) or after
\* it has been truncated (it is left incomplete); the catch of main takes over
WriteFails ==
    /\ pc = "Evaluating"
    /\ ~TooManyErrors
    /\ dataDir' = TRUE
    /\ \E truncated \in BOOLEAN : outputFile' = IF truncated THEN PartialFile ELSE outputFile
    /\ Catch("write")
    /\ steady' = FALSE
    /\ UNCHANGED <<config, client, turnCalls, mainAttempt, attempt, response, thumbnailFiles, clock,
                   run, runStartFile, geoReached, steadyBefore>>

\* ------------------------------------------------------------------------
\* The scheduler starts the script again
\* ------------------------------------------------------------------------
Reschedule ==
    /\ pc \in {"Done", "Exited", "Crashed"}
    /\ run < MaxRuns
    /\ Len(sheet) <= MaxRerunRows
    /\ \A k \in 1..Len(sheet) : sheet[k] \in RerunRows
    /\ run' = run + 1
    /\ clock' = clock + 1
    /\ pc' = "Idle"
    /\ exitCode' = -1
    /\ caught' = "none"
    /\ mainAttempt' = 1
    /\ attempt' = 1
    /\ response' = "none"
    /\ waitTime' = 0
    /\ rawData' = <<>>
    /\ rowIndex' = 0
    /\ restaurants' = <<>>
    /\ validCount' = 0
    /\ skippedCount' = 0
    /\ coordinateErrors' = 0
    /\ runStartFile' = outputFile
    /\ geoReached' = FALSE
    /\ steadyBefore' = steady
    /\ steady' = TRUE
    /\ turnCalls' = NoCalls
    /\ UNCHANGED <<config, client, files>>

Next ==
    \/ Start
    \/ FetchClean
    \/ FetchCorrupt
    \/ FetchFail
    \/ BackoffDone
    \/ ProcessRow
    \/ EndPass
    \/ EvaluateRetry
    \/ WriteDataset
    \/ WriteFails
    \/ CoolDownDone

Spec == Init /\ [][Next]_vars

\* every request is answered and every timer fires: the script is never held
\* up for ever at an await
\* the exports of the runs followed to their end: none, one row, and the
\* long ones
LiveExports == {e \in ShortExports : Len(e) <= 1} \cup LongExports

InitLive == Init /\ sheet \in LiveExports

\* the steps of main outside the loop over the rows
OutsideLoop ==
    \/ Start
    \/ FetchClean
    \/ FetchCorrupt
    \/ FetchFail
    \/ BackoffDone
    \/ EndPass
    \/ EvaluateRetry
    \/ WriteDataset
    \/ WriteFails
    \/ CoolDownDone

\* a turn of the loop over the rows, whatever its outcome: ProcessRow, seen
\* through the loop index alone
RowTurn ==
    /\ pc = "Processing"
    /\ rowIndex < Len(rawData)
    /\ rowIndex' = rowIndex + 1

SpecLive == InitLive /\ [][Next]_vars /\ WF_vars(OutsideLoop) /\ WF_rowIndex(RowTurn)

NextRerun == Next \/ Reschedule

\* the exports of the invocations that are followed by another, and the long
\* ones
InitRerun ==
    /\ Init
    /\ \/ sheet \in LongExports
       \/ Len(sheet) <= MaxRerunRows /\ \A k \in 1..Len(sheet) : sheet[k] \in RerunRows

SpecRerun == InitRerun /\ [][NextRerun]_vars

\* ------------------------------------------------------------------------
\* The browser client (app.js): the geocode cache and the coordinates of a row
\* ------------------------------------------------------------------------
\* .replace(/[^a-z0-9]/g, '_')
ReplaceNonAlnum(s) ==
    [k \in 1..Len(s) |->
        IF (\E i \in 1..26 : LowerCase[i] = s[k]) \/ IsDigit(s[k]) THEN s[k] ELSE "_"]

\* .replace(/_+/g, '_')
RECURSIVE CollapseUnderscores(_)
CollapseUnderscores(s) ==
    IF Len(s) < 2 THEN s
    ELSE IF s[1] = "_" /\ s[2] = "_" THEN CollapseUnderscores(Tail(s))
    ELSE <<s[1]>> \o CollapseUnderscores(Tail(s))

\* .substring(0, n)
Substring(s, n) == SubSeq(s, 1, IF Len(s) < n THEN Len(s) ELSE n)

\* generateRestaurantHash
generateRestaurantHash(restaurant, address) ==
    Substring(CollapseUnderscores(ReplaceNonAlnum(ToLowerCase(
        restaurant \o <<"_">> \o address))), 50)

\* getRestaurantCoordinates: the cache entry of the row if there is one, else
\* the pair in the GeoCode Script column, else NaN
getRestaurantCoordinates(row, cache) ==
    LET restaurantHash == generateRestaurantHash(row.Restaurant, row.Address)
        geoCodeScript == Trim(row.GeoCodeScript)
        parts == SplitComma(geoCodeScript)
        coords == [k \in 1..Len(parts) |-> Trim(parts[k])]
    IN  IF cache # Null /\ restaurantHash \in DOMAIN cache[1].restaurants
        THEN [lat |-> cache[1].restaurants[restaurantHash].coordinates.lat,
              lng |-> cache[1].restaurants[restaurantHash].coordinates.lng,
              source |-> "cache"]
        ELSE IF /\ Truthy(geoCodeScript)
                /\ Len(coords) = 2
                /\ ~IsNaN(ParseFloat(coords[1]))
                /\ ~IsNaN(ParseFloat(coords[2]))
        THEN [lat |-> ParseFloat(coords[1]), lng |-> ParseFloat(coords[2]), source |-> "csv_geocode"]
        ELSE [lat |-> NaN, lng |-> NaN, source |-> "none"]

\* validCoordinates without the test of the bounds
validCoordinatesUnbounded(lat, lng) == ~IsNaN(lat) /\ ~IsNaN(lng)

\* validCoordinates of processRestaurantData
validCoordinates(lat, lng) ==
    /\ ~IsNaN(lat) /\ ~IsNaN(lng)
    /\ lat.val >= -90 /\ lat.val <= 90
    /\ lng.val >= -180 /\ lng.val <= 180

\* hasValidExternalUrl of processRestaurantData: the cell is not empty, has
\* no '#NAME?' and no 'Error:' in it, starts with https:// and matches
\* /^https?:\/\/.+\..+/
hasValidExternalUrl(tikTokThumbnail) ==
    /\ Truthy(tikTokThumbnail)
    /\ ~Includes(tikTokThumbnail, "#NAME?")
    /\ ~Includes(tikTokThumbnail, "Error:")
    /\ Head(tikTokThumbnail) = "https://"
    /\ \E k \in 3..(Len(tikTokThumbnail) - 1) : tikTokThumbnail[k] = "."

\* cells as parseCSV of the client leaves them: trimmed
ClientNames == {<<"a">>}
ClientAddresses == {<<"b">>, <<"c">>, <<"-", "b">>}

\* GeoCode Script cells: none, a valid pair, a pair out of range, a text that
\* is no pair, three numbers, a formula error
ClientScripts ==
    {<<>>, <<"4", "0", ",", " ", "-", "7", "4">>, <<"9", "5", ",", "1", "0">>, <<"x">>,
     <<"1", ",", "2", ",", "3">>, <<"#ERROR!">>}

ClientRows ==
    {Row(name, address, <<>>, script) :
        name \in ClientNames, address \in ClientAddresses, script \in ClientScripts}

\* arguments updateCacheEntry can be given: it has no caller that trims them
EntryNames == {<<"a">>, <<"A">>, <<" ", "a">>}
EntryAddresses == {<<"b">>, <<"b", " ">>}

\* a position with where it comes from: the geocoding API or the sheet
EntryPositions ==
    {[lat |-> Num(41), lng |-> Num(-73), source |-> "geocode_api"],
     [lat |-> Num(40), lng |-> Num(-74), source |-> "csv_geocode"]}

NoEntries == <<>>

\* data/geocode-cache.json as deployed with one entry
DeployedCache ==
    [version |-> "1.0.0", lastUpdated |-> 0,
     restaurants |->
        [k \in {generateRestaurantHash(<<"a">>, <<"b">>)} |->
            [name |-> <<"a">>, address |-> <<"b">>, location |-> <<>>,
             coordinates |-> [lat |-> Num(40), lng |-> Num(-74)],
             source |-> "csv_geocode", lastGeocoded |-> 0]]]

\* the pipeline script before it is started, on an empty spreadsheet
PipelineIdle ==
    /\ csvUrl = TRUE
    /\ googleApiKey = FALSE
    /\ sheet = <<>>
    /\ pc = "Idle"
    /\ exitCode = -1
    /\ caught = "none"
    /\ mainAttempt = 1
    /\ attempt = 1
    /\ response = "none"
    /\ waitTime = 0
    /\ rawData = <<>>
    /\ rowIndex = 0
    /\ restaurants = <<>>
    /\ validCount = 0
    /\ skippedCount = 0
    /\ coordinateErrors = 0
    /\ thumbnailFiles = {}
    /\ outputFile = NoFile
    /\ dataDir = FALSE
    /\ clock = 1
    /\ run = 1
    /\ runStartFile = NoFile
    /\ geoReached = FALSE
    /\ steady = TRUE
    /\ steadyBefore = TRUE
    /\ turnCalls = NoCalls

\* the client after loadGeocodeCache: no cache file (or caching disabled, or
\* the fetch failed), or the parsed file
InitClient ==
    /\ PipelineIdle
    /\ geocodeCache \in {Null, <<DeployedCache>>}
    /\ validationResult = <<>>
    /\ csvInput = <<>>
    /\ parsed = <<>>
    /\ BrowserIdle

\* the coordinate step of the row validation in processRestaurantData
ValidateRow(row) ==
    /\ validationResult' =
        LET coordinates == getRestaurantCoordinates(row, geocodeCache)
        IN  <<[row |-> row,
               coordinateSource |-> coordinates.source,
               latitude |-> coordinates.lat,
               longitude |-> coordinates.lng,
               validCoordinates |-> validCoordinates(coordinates.lat, coordinates.lng)]>>
    /\ UNCHANGED <<pipeline, geocodeCache, parser, browser>>

\* updateCacheEntry
UpdateCacheEntry(restaurant, address, location, lat, lng, source) ==
    LET cache == IF geocodeCache = Null
                 THEN [version |-> "1.0.0", lastUpdated |-> clock, restaurants |-> NoEntries]
                 ELSE geocodeCache[1]
        hash == generateRestaurantHash(restaurant, address)
        entry == [name |-> restaurant, address |-> address, location |-> location,
                  coordinates |-> [lat |-> lat, lng |-> lng],
                  source |-> source, lastGeocoded |-> clock]
    IN  /\ geocodeCache' =
            <<[cache EXCEPT
                !.restaurants = [k \in DOMAIN cache.restaurants \cup {hash} |->
                                    IF k = hash THEN entry ELSE cache.restaurants[k]],
                !.lastUpdated = clock]>>
        /\ UNCHANGED <<pipeline, validationResult, parser, browser>>

NextClient ==
    \/ \E row \in ClientRows : ValidateRow(row)
    \/ \E restaurant \in EntryNames, address \in EntryAddresses,
          position \in EntryPositions :
            UpdateCacheEntry(restaurant, address, <<>>, position.lat, position.lng,
                             position.source)

SpecClient == InitClient /\ [][NextClient]_vars

\* ------------------------------------------------------------------------
\* parseCSV and parseCSVLine of the pipeline script
\* ------------------------------------------------------------------------
\* lines.push(currentLine.trim()) under if (currentLine.trim())
PushLine(currentLine) == IF Truthy(Trim(currentLine)) THEN <<Trim(currentLine)>> ELSE <<>>

\* the first loop of parseCSV taking every "\n" as the end of a line
RECURSIVE SplitLinesPhysical(_, _, _, _)
SplitLinesPhysical(text, i, currentLine, inQuotes) ==
    IF i > Len(text) THEN PushLine(currentLine)
    ELSE IF text[i] = "\n"
         THEN PushLine(currentLine) \o SplitLinesPhysical(text, i + 1, <<>>, inQuotes)
         ELSE SplitLinesPhysical(text, i + 1, Append(currentLine, text[i]), inQuotes)

\* the first loop of parseCSV from character i on, with currentLine and
\* inQuotes as they stand: the lines it pushes, the last line included
RECURSIVE SplitLines(_, _, _, _)
SplitLines(text, i, currentLine, inQuotes) ==
    IF i > Len(text) THEN PushLine(currentLine)
    ELSE IF text[i] = "\""
         THEN SplitLines(text, i + 1, Append(currentLine, text[i]), ~inQuotes)
         ELSE IF text[i] = "\n" /\ ~inQuotes
              THEN PushLine(currentLine) \o SplitLines(text, i + 1, <<>>, inQuotes)
              ELSE SplitLines(text, i + 1, Append(currentLine, text[i]), inQuotes)

\* the loop of parseCSVLine from character i on: the result array
RECURSIVE ParseLineFrom(_, _, _, _)
ParseLineFrom(line, i, current, inQuotes) ==
    IF i > Len(line) THEN <<current>>
    ELSE IF line[i] = "\""
         THEN ParseLineFrom(line, i + 1, current, ~inQuotes)
         ELSE IF line[i] = "," /\ ~inQuotes
              THEN <<current>> \o ParseLineFrom(line, i + 1, <<>>, inQuotes)
              ELSE ParseLineFrom(line, i + 1, Append(current, line[i]), inQuotes)

parseCSVLine(line) == ParseLineFrom(line, 1, <<>>, FALSE)

\* .replace(/"/g, '')
RECURSIVE RemoveQuotes(_)
RemoveQuotes(s) ==
    IF s = <<>> THEN <<>>
    ELSE (IF Head(s) = "\"" THEN <<>> ELSE <<Head(s)>>) \o RemoveQuotes(Tail(s))

\* .replace(/\n/g, ' ')
ReplaceNewlines(s) == [k \in 1..Len(s) |-> IF s[k] = "\n" THEN " " ELSE s[k]]

\* .replace(/\s+/g, ' ')
RECURSIVE CollapseWhitespace(_)
CollapseWhitespace(s) ==
    IF s = <<>> THEN <<>>
    ELSE IF IsSpace(Head(s))
         THEN <<" ">> \o CollapseWhitespace(TrimLeft(s))
         ELSE <<Head(s)>> \o CollapseWhitespace(Tail(s))

\* the value of a cell without the two replacements of line 180
CellValueRaw(values, index) ==
    IF index <= Len(values) /\ Truthy(values[index])
    THEN RemoveQuotes(Trim(values[index]))
    ELSE <<>>

\* the value parseCSV stores under the header of column index
CellValue(values, index) ==
    LET value == IF index <= Len(values) /\ Truthy(values[index])
                 THEN RemoveQuotes(Trim(values[index]))
                 ELSE <<>>
    IN  Trim(CollapseWhitespace(ReplaceNewlines(value)))

\* the row object of a line: a later column of the same header overwrites an
\* earlier one
RowObject(headers, values) ==
    [header \in {headers[k] : k \in 1..Len(headers)} |->
        CellValue(values, CHOOSE k \in 1..Len(headers) :
            headers[k] = header /\ \A j \in (k + 1)..Len(headers) : headers[j] # header)]

\* the second loop of parseCSV leaving out the lines that have fewer values
\* than there are headers
RECURSIVE BuildRowsFullOnly(_, _)
BuildRowsFullOnly(headers, lines) ==
    IF lines = <<>> THEN <<>>
    ELSE (IF Len(parseCSVLine(Head(lines))) < Len(headers)
          THEN <<>>
          ELSE <<RowObject(headers, parseCSVLine(Head(lines)))>>)
         \o BuildRowsFullOnly(headers, Tail(lines))

\* the second loop of parseCSV: one row object for each line after the first
BuildRows(headers, lines) ==
    [i \in 1..Len(lines) |-> RowObject(headers, parseCSVLine(lines[i]))]

parseCSV(text) ==
    LET lines == SplitLines(text, 1, <<>>, FALSE)
    IN  IF Len(lines) < 2 THEN <<>>
        ELSE LET first == parseCSVLine(lines[1])
                 headers == [k \in 1..Len(first) |-> RemoveQuotes(Trim(first[k]))]
             IN  BuildRows(headers, Tail(lines))

\* the characters of the texts
CsvAlphabet == {"a", ",", "\"", "\n", " "}

\* the header line of the texts that have one fixed
HeaderLine == <<"h", ",", "k", "\n">>

\* the texts given to parseCSV: any text of n characters, alone or after the
\* header line
CsvTexts(n) ==
    LET bodies == [1..n -> CsvAlphabet]
    IN  bodies \cup {HeaderLine \o body : body \in bodies}

InitParse ==
    /\ PipelineIdle
    /\ geocodeCache = Null
    /\ validationResult = <<>>
    /\ \E n \in 0..MaxBody : csvInput \in CsvTexts(n)
    /\ parsed = <<>>
    /\ BrowserIdle

\* const rawData = parseCSV(csvText)
ParseCSV ==
    /\ parsed = <<>>
    /\ parsed' = <<parseCSV(csvInput)>>
    /\ UNCHANGED <<pipeline, geocodeCache, validationResult, csvInput, browser>>

NextParse == ParseCSV

SpecParse == InitParse /\ [][NextParse]_vars

\* ------------------------------------------------------------------------
\* The page: filters, sort, paging, the URL and the session history
\* (src/unnamed/part_000 from line 770; the same handlers are in
\* src/js/app.js, which matches the city where this one matches locationData)
\* ------------------------------------------------------------------------
\* const itemsPerPage = 24
itemsPerPage == 24

\* number of restaurants the page loads
ListSize == 26

\* largest number of tags selected by clicks
MaxTags == 2

\* largest number of entries of the session history
MaxHistory == 3

SortOptions == {"newest", "oldest", "rating-desc", "rating-asc"}

TagBurger == <<"b">>
ReviewerV == <<"V">>
ReviewerW == <<"W">>
CityR == <<"R">>
CityS == <<"S">>
RegionT == <<"T">>

\* fullLocation: `${city}, ${fullRegion}`
FullLocation(city, fullRegion) == city \o <<",", " ">> \o fullRegion

LocationRT == FullLocation(CityR, RegionT)

\* the restaurants array after loadRestaurantData: one restaurant rated 9 by
\* reviewer V, one without tags rated 5 in another city, the others rated 7
PageRestaurant(i) ==
    [tags |-> IF i = 2 THEN <<>> ELSE <<TagBurger>>,
     reviewer |-> IF i = 1 THEN ReviewerV ELSE ReviewerW,
     locationData |->
        [city |-> IF i = 2 THEN CityS ELSE CityR,
         fullLocation |-> FullLocation(IF i = 2 THEN CityS ELSE CityR, RegionT),
         fullRegion |-> RegionT],
     rating |-> IF i = 1 THEN 9 ELSE IF i = 2 THEN 5 ELSE 7,
     datePosted |-> i]

pageRestaurants == [i \in 1..ListSize |-> PageRestaurant(i)]

\* the comparators of sortAndDisplayRestaurants; Array.prototype.sort is
\* stable
SortsBefore(sort, i, j) ==
    LET a == pageRestaurants[i]
        b == pageRestaurants[j]
        c == CASE sort = "rating-asc" -> a.rating - b.rating
               [] sort = "rating-desc" -> b.rating - a.rating
               [] sort = "oldest" -> a.datePosted - b.datePosted
               [] OTHER -> b.datePosted - a.datePosted
    IN  c < 0 \/ (c = 0 /\ i < j)

Sorted(sort) ==
    [n \in 1..ListSize |->
        CHOOSE i \in 1..ListSize :
            Cardinality({j \in 1..ListSize : SortsBefore(sort, j, i)}) = n - 1]

SortedNewest == Sorted("newest")

SortedOldest == Sorted("oldest")

SortedRatingDesc == Sorted("rating-desc")

SortedRatingAsc == Sorted("rating-asc")

\* window.currentSortedRestaurants || restaurants, as indices into restaurants
SortedRestaurants(st) ==
    IF ~st.loaded THEN <<>>
    ELSE CASE st.currentSortedRestaurants = "rating-asc" -> SortedRatingAsc
           [] st.currentSortedRestaurants = "rating-desc" -> SortedRatingDesc
           [] st.currentSortedRestaurants = "oldest" -> SortedOldest
           [] st.currentSortedRestaurants = "newest" -> SortedNewest
           [] OTHER -> [n \in 1..ListSize |-> n]

\* Array.prototype.join(',')
RECURSIVE JoinComma(_)
JoinComma(list) ==
    IF list = <<>> THEN <<>>
    ELSE IF Len(list) = 1 THEN list[1]
    ELSE list[1] \o <<",">> \o JoinComma(Tail(list))

\* URLSearchParams.set serialises the value: ',' as %2C, ' ' as +
EncodeParam(s) ==
    [k \in 1..Len(s) |-> IF s[k] = "," THEN "%2C" ELSE IF s[k] = " " THEN "+" ELSE s[k]]

\* URLSearchParams.get parses it back
DecodeParam(s) ==
    [k \in 1..Len(s) |-> IF s[k] = "%2C" THEN "," ELSE IF s[k] = "+" THEN " " ELSE s[k]]

\* Set.prototype.add, the set kept in insertion order
SetAdd(list, tag) == IF \E k \in 1..Len(list) : list[k] = tag THEN list ELSE Append(list, tag)

RECURSIVE SetAddAll(_, _)
SetAddAll(list, tags) == IF tags = <<>> THEN list ELSE SetAddAll(SetAdd(list, Head(tags)), Tail(tags))

\* Set.prototype.delete
SetDelete(list, tag) == SelectSeq(list, LAMBDA t : t # tag)

\* tagsParam.split(',').map(tag => tag.trim()).filter(tag => tag), added to
\* the cleared selectedTags
TagsOfParam(tagsParam) ==
    LET parts == SplitComma(tagsParam)
    IN  SetAddAll(<<>>, FilterTruthy([k \in 1..Len(parts) |-> Trim(parts[k])]))

\* the page's globals and what it sees of the browser, as one value
Now ==
    [loaded |-> loaded, currentPage |-> currentPage, currentSort |-> currentSort,
     selectedTags |-> selectedTags, sliderValue |-> sliderValue, sliderMin |-> sliderMin,
     currentSortedRestaurants |-> currentSortedRestaurants,
     totalFilteredRestaurants |-> totalFilteredRestaurants,
     search |-> search, entries |-> entries, historyIndex |-> historyIndex,
     onMap |-> onMap, displayed |-> displayed, pushed |-> FALSE]

\* window.history.pushState: the entries after the current one are dropped
pushState(st, url) ==
    [st EXCEPT !.search = url,
               !.entries = SubSeq(st.entries, 1, st.historyIndex) \o <<url>>,
               !.historyIndex = st.historyIndex + 1,
               !.pushed = TRUE]

\* the four parameters updateUrl sets or deletes
UrlOfState(st) ==
    [page |-> IF st.currentPage > 1 THEN <<st.currentPage>> ELSE <<>>,
     sort |-> IF st.currentSort # "newest" THEN <<st.currentSort>> ELSE <<>>,
     tags |-> IF Len(st.selectedTags) > 0
              THEN <<EncodeParam(JoinComma(st.selectedTags))>>
              ELSE <<>>,
     rating |-> IF st.sliderValue > st.sliderMin THEN <<st.sliderValue>> ELSE <<>>]

updateUrl(st) ==
    LET newUrl == UrlOfState(st)
    IN  IF st.search # newUrl THEN pushState(st, newUrl) ELSE st

\* restaurantTag.toLowerCase().trim() and the like, for every restaurant
CleanRestaurants ==
    [i \in 1..ListSize |->
        LET restaurant == pageRestaurants[i]
        IN  [tags |-> [k \in 1..Len(restaurant.tags) |-> Trim(ToLowerCase(restaurant.tags[k]))],
             reviewer |-> Trim(ToLowerCase(restaurant.reviewer)),
             city |-> Trim(ToLowerCase(restaurant.locationData.city)),
             fullLocation |-> Trim(ToLowerCase(restaurant.locationData.fullLocation)),
             fullRegion |-> Trim(ToLowerCase(restaurant.locationData.fullRegion))]]

\* the test of getFilteredRestaurants for restaurants[i]; cleanTags are the
\* selected tags through toLowerCase().trim()
Shows(i, cleanTags, minRating) ==
    LET restaurant == pageRestaurants[i]
        clean == CleanRestaurants[i]
        hasAllSelectedTags ==
            \A n \in 1..Len(cleanTags) :
                LET cleanSelectedTag == cleanTags[n]
                    matchesTag == \E k \in 1..Len(clean.tags) : clean.tags[k] = cleanSelectedTag
                    matchesReviewer == clean.reviewer = cleanSelectedTag
                    cityMatch ==
                        Truthy(restaurant.locationData.city) /\ clean.city = cleanSelectedTag
                    fullLocationMatch ==
                        Truthy(restaurant.locationData.fullLocation) /\ clean.fullLocation = cleanSelectedTag
                    regionMatch ==
                        Truthy(restaurant.locationData.fullRegion) /\ clean.fullRegion = cleanSelectedTag
                IN  matchesTag \/ matchesReviewer \/ cityMatch \/ fullLocationMatch \/ regionMatch
    IN  /\ (Len(cleanTags) > 0 => hasAllSelectedTags)
        /\ ~(restaurant.rating < minRating)

\* the indices of the restaurants a filter with these tags and this minimum
\* keeps, in the order of sorted
FilterRestaurants(sorted, tags, minRating) ==
    LET cleanTags == [n \in 1..Len(tags) |-> Trim(ToLowerCase(tags[n]))]
    IN  SelectSeq(sorted, LAMBDA i : Shows(i, cleanTags, minRating))

getFilteredRestaurants(st) ==
    FilterRestaurants(SortedRestaurants(st), st.selectedTags, st.sliderValue)

displayPaginatedRestaurants(st, filteredRestaurants) ==
    LET total == Len(filteredRestaurants)
        startIndex == (st.currentPage - 1) * itemsPerPage
        endIndex == IF startIndex + itemsPerPage < total THEN startIndex + itemsPerPage ELSE total
    IN  [st EXCEPT !.totalFilteredRestaurants = total,
                   !.displayed = {filteredRestaurants[k] : k \in (startIndex + 1)..endIndex}]

\* a marker update that follows the cards of the list
applyFiltersPageOnly(st0, skipUrlUpdate) ==
    LET st == IF skipUrlUpdate THEN st0 ELSE updateUrl([st0 EXCEPT !.currentPage = 1])
        filteredRestaurants == getFilteredRestaurants(st)
        shown == displayPaginatedRestaurants(st, filteredRestaurants)
    IN  [shown EXCEPT !.onMap = shown.displayed]

applyFilters(st0, skipUrlUpdate) ==
    LET st == IF skipUrlUpdate THEN st0 ELSE updateUrl([st0 EXCEPT !.currentPage = 1])
        filteredRestaurants == getFilteredRestaurants(st)
    IN  displayPaginatedRestaurants(
            [st EXCEPT !.onMap = {filteredRestaurants[k] : k \in 1..Len(filteredRestaurants)}],
            filteredRestaurants)

\* sorts, createRestaurantCards (which sets window.currentSortedRestaurants),
\* applyFilters()
sortAndDisplayRestaurants(st) ==
    applyFilters([st EXCEPT !.currentSortedRestaurants = st.currentSort], FALSE)

\* the smallest rating above 0
MinRating ==
    CHOOSE m \in {pageRestaurants[i].rating : i \in 1..ListSize} :
        /\ m > 0
        /\ \A i \in 1..ListSize : pageRestaurants[i].rating > 0 => m <= pageRestaurants[i].rating

setupDynamicRatingSlider(st) == [st EXCEPT !.sliderMin = MinRating, !.sliderValue = MinRating]

\* the values the slider is moved to
SliderStops == {MinRating, 7}

\* what initializeFromUrl and initializeFromUrlForNavigation read alike
PageOfParam(pageParam, current) ==
    IF pageParam # <<>> THEN (IF pageParam[1] > 0 THEN pageParam[1] ELSE current) ELSE current

initializeFromUrl(st) ==
    LET page == PageOfParam(st.search.page, st.currentPage)
        sort == IF st.search.sort # <<>> /\ st.search.sort[1] \in SortOptions
                THEN st.search.sort[1] ELSE st.currentSort
        tags == IF st.search.tags # <<>> /\ Truthy(DecodeParam(st.search.tags[1]))
                THEN TagsOfParam(DecodeParam(st.search.tags[1])) ELSE st.selectedTags
        rating == IF st.search.rating # <<>> THEN st.search.rating[1] ELSE st.sliderValue
        url == [page |-> IF page > 1 THEN <<page>> ELSE st.search.page,
                sort |-> IF sort # "newest" THEN <<sort>> ELSE st.search.sort,
                tags |-> IF Len(tags) > 0 THEN <<EncodeParam(JoinComma(tags))>> ELSE st.search.tags,
                rating |-> st.search.rating]
    IN  [st EXCEPT !.currentPage = page, !.currentSort = sort, !.selectedTags = tags,
                   !.sliderValue = rating, !.search = url,
                   !.entries = [st.entries EXCEPT ![st.historyIndex] = url]]

initializeFromUrlForNavigation(st) ==
    [st EXCEPT
        !.currentPage = IF st.search.page # <<>> THEN PageOfParam(st.search.page, st.currentPage) ELSE 1,
        !.currentSort = IF st.search.sort # <<>> /\ st.search.sort[1] \in SortOptions
                        THEN st.search.sort[1] ELSE "newest",
        !.selectedTags = IF st.search.tags # <<>> /\ Truthy(DecodeParam(st.search.tags[1]))
                         THEN TagsOfParam(DecodeParam(st.search.tags[1])) ELSE <<>>,
        !.sliderValue = IF st.search.rating # <<>> THEN st.search.rating[1] ELSE st.sliderMin]

\* the listener of setupBrowserNavigation
OnPopstate(st) ==
    LET read == initializeFromUrlForNavigation(st)
    IN  IF read.loaded THEN applyFilters(sortAndDisplayRestaurants(read), TRUE) ELSE read

\* the handler has returned with the page in the state result
Handled(name, result) ==
    \E st \in {result} :
        /\ loaded' = st.loaded
        /\ currentPage' = st.currentPage
        /\ currentSort' = st.currentSort
        /\ selectedTags' = st.selectedTags
        /\ sliderValue' = st.sliderValue
        /\ sliderMin' = st.sliderMin
        /\ currentSortedRestaurants' = st.currentSortedRestaurants
        /\ totalFilteredRestaurants' = st.totalFilteredRestaurants
        /\ search' = st.search
        /\ entries' = st.entries
        /\ historyIndex' = st.historyIndex
        /\ onMap' = st.onMap
        /\ displayed' = st.displayed
        /\ handled' = name
        /\ pushed' = st.pushed
        /\ UNCHANGED <<pipeline, geocodeCache, validationResult, parser>>

\* the URLs the page is opened with
InitialUrls ==
    {NoParams,
     [NoParams EXCEPT !.page = <<2>>],
     [NoParams EXCEPT !.sort = <<"oldest">>],
     [NoParams EXCEPT !.tags = <<EncodeParam(TagBurger)>>],
     [NoParams EXCEPT !.tags = <<EncodeParam(LocationRT)>>],
     [NoParams EXCEPT !.rating = <<7>>],
     [page |-> <<2>>, sort |-> <<"rating-desc">>,
      tags |-> <<EncodeParam(JoinComma(<<TagBurger, ReviewerV>>))>>, rating |-> <<>>]}

\* DOMContentLoaded: the state after initializeFromUrl, before the data is
\* there
InitPage ==
    /\ PipelineIdle
    /\ geocodeCache = Null
    /\ validationResult = <<>>
    /\ csvInput = <<>>
    /\ parsed = <<>>
    /\ \E url \in InitialUrls :
        LET st == initializeFromUrl(
                    [loaded |-> FALSE, currentPage |-> 1, currentSort |-> "newest",
                     selectedTags |-> <<>>, sliderValue |-> 0, sliderMin |-> 0,
                     currentSortedRestaurants |-> "none", totalFilteredRestaurants |-> 0,
                     search |-> url, entries |-> <<url>>, historyIndex |-> 1,
                     onMap |-> {}, displayed |-> {}, pushed |-> FALSE])
        IN  /\ loaded = st.loaded
            /\ currentPage = st.currentPage
            /\ currentSort = st.currentSort
            /\ selectedTags = st.selectedTags
            /\ sliderValue = st.sliderValue
            /\ sliderMin = st.sliderMin
            /\ currentSortedRestaurants = st.currentSortedRestaurants
            /\ totalFilteredRestaurants = st.totalFilteredRestaurants
            /\ search = st.search
            /\ entries = st.entries
            /\ historyIndex = st.historyIndex
            /\ onMap = st.onMap
            /\ displayed = st.displayed
            /\ handled = "DOMContentLoaded"
            /\ pushed = st.pushed

\* loadRestaurantData: createMapMarkers, sortAndDisplayRestaurants,
\* setupFilters
LoadRestaurantData ==
    /\ ~loaded
    /\ Handled("load",
               setupDynamicRatingSlider(
                   sortAndDisplayRestaurants([Now EXCEPT !.loaded = TRUE, !.onMap = 1..ListSize])))

\* selectTag(tag) for a tag that is not selected
selectTag(tag) ==
    applyFilters(updateUrl([Now EXCEPT !.selectedTags = SetAdd(selectedTags, tag), !.currentPage = 1]),
                 FALSE)

\* a click on a tag or on a reviewer
SelectTag ==
    /\ loaded
    /\ historyIndex < MaxHistory
    /\ Len(selectedTags) < MaxTags
    /\ \E tag \in {TagBurger, ReviewerV} :
        /\ \A k \in 1..Len(selectedTags) : selectedTags[k] # tag
        /\ Handled("selectTag", selectTag(tag))

\* a click on the location of a card: selectLocationTag(event, fullLocation)
SelectLocationTag ==
    /\ loaded
    /\ historyIndex < MaxHistory
    /\ Len(selectedTags) < MaxTags
    /\ \E i \in {1, 2} :
        LET tag == pageRestaurants[i].locationData.fullLocation
        IN  /\ \A k \in 1..Len(selectedTags) : selectedTags[k] # tag
            /\ Handled("selectLocationTag", selectTag(tag))

\* removeTag(tag)
RemoveTag ==
    /\ loaded
    /\ historyIndex < MaxHistory
    /\ \E k \in 1..Len(selectedTags) :
        Handled("removeTag",
                applyFilters(updateUrl([Now EXCEPT !.selectedTags = SetDelete(selectedTags, selectedTags[k]),
                                                   !.currentPage = 1]),
                             FALSE))

\* goToPage(page)
GoToPage ==
    /\ loaded
    /\ historyIndex < MaxHistory
    /\ \E page \in 1..((totalFilteredRestaurants + itemsPerPage - 1) \div itemsPerPage) :
        /\ page # currentPage
        /\ LET st == updateUrl([Now EXCEPT !.currentPage = page])
           IN  Handled("goToPage", displayPaginatedRestaurants(st, getFilteredRestaurants(st)))

\* the change listener of the sort dropdown
ChangeSort ==
    /\ historyIndex < MaxHistory
    /\ \E value \in {"newest", "oldest", "rating-desc"} :
        /\ value # currentSort
        /\ Handled("sort",
                   sortAndDisplayRestaurants(updateUrl([Now EXCEPT !.currentSort = value, !.currentPage = 1])))

\* the two input listeners of the slider, the one of setupEventListeners and
\* the one of setupDynamicRatingSlider
SlideRating ==
    /\ loaded
    /\ historyIndex < MaxHistory
    /\ \E value \in SliderStops :
        /\ value # sliderValue
        /\ LET first == applyFilters([Now EXCEPT !.sliderValue = value, !.currentPage = 1], FALSE)
           IN  Handled("slider", applyFilters(updateUrl([first EXCEPT !.currentPage = 1]), FALSE))

\* clearAllFilters
ClearAllFilters ==
    /\ loaded
    /\ historyIndex < MaxHistory
    /\ Handled("clear",
               sortAndDisplayRestaurants(
                   updateUrl([Now EXCEPT !.selectedTags = <<>>, !.sliderValue = sliderMin,
                                         !.currentSort = "newest", !.currentPage = 1])))

\* the user goes back or forward to another entry of the session history
Popstate ==
    \E k \in 1..Len(entries) :
        /\ k # historyIndex
        /\ Handled("popstate", OnPopstate([Now EXCEPT !.search = entries[k], !.historyIndex = k]))

NextPage ==
    \/ LoadRestaurantData
    \/ SelectTag
    \/ SelectLocationTag
    \/ RemoveTag
    \/ GoToPage
    \/ ChangeSort
    \/ SlideRating
    \/ ClearAllFilters
    \/ Popstate

SpecPage == InitPage /\ [][NextPage]_vars

\* ------------------------------------------------------------------------
\* Properties
\* ------------------------------------------------------------------------
\* the records of a file that holds a complete document
FileRecords(file) == IF file.state = "complete" THEN file.data[1].restaurants ELSE <<>>

\* the records in memory and on disk
AllRecords ==
    {restaurants[k] : k \in 1..Len(restaurants)}
        \cup {FileRecords(outputFile)[k] : k \in 1..Len(FileRecords(outputFile))}

\* rows of an export with a name and an address
RECURSIVE NamedRows(_)
NamedRows(body) ==
    IF body = <<>> THEN 0
    ELSE (IF Truthy(Trim(Head(body).Restaurant)) /\ Truthy(Trim(Head(body).Address)) THEN 1 ELSE 0)
            + NamedRows(Tail(body))

\* the file holds a document written by this invocation
Written == outputFile.state = "complete" /\ outputFile # runStartFile

\* C1: every record, in memory or in the written dataset, has a latitude in
\* [-90,90], a longitude in [-180,180] and a non-empty image reference; rows
\* that fail to resolve leave no record.
C1_RecordsResolved ==
    /\ \A r \in AllRecords :
        /\ r.latitude >= -90 /\ r.latitude <= 90
        /\ r.longitude >= -180 /\ r.longitude <= 180
        /\ r.tikTokThumbnail # <<>>
    /\ Len(restaurants) = validCount
    /\ validCount + skippedCount = rowIndex

\* a dataset with a record has been written from an export of which another
\* row, with a name and an address, failed to resolve
C1_Witness ==
    /\ pc = "Done"
    /\ Written
    /\ Len(FileRecords(outputFile)) >= 1
    /\ skippedCount >= 1
    /\ \A k \in 1..Len(rawData) : ~MissingRequired(rawData[k])

\* C2 (as claimed): when the attempts are exhausted the process exits with a
\* non-zero status and data/restaurants.json is as it was when the run began.
C2_NoChangeOnExhaustion ==
    pc = "Exited" => exitCode # 0 /\ outputFile = runStartFile

\* C3 (as claimed): after a full pass the run is retried exactly when more
\* than half of the rows and more than 10 rows had a coordinate error; else
\* the dataset is written and the run ends successfully.
C3_RetryIffThreshold ==
    [][pc = "Evaluating" =>
        /\ (pc' = "Retrying") <=> (2 * coordinateErrors > Len(rawData) /\ coordinateErrors > 10)
        /\ ~(2 * coordinateErrors > Len(rawData) /\ coordinateErrors > 10)
              => pc' = "Done" /\ outputFile'.state = "complete"]_vars

\* C3 (amended): after a full pass, if more than half of the rows and more
\* than 10 rows had a coordinate error the attempt fails without touching the
\* dataset (a retry after the cool-down, or exit 1 on the third attempt); else
\* the write is attempted: the run ends with status 0 and the complete
\* dataset, or the write fails and the attempt fails.
C3_ThresholdDecides ==
    [][pc = "Evaluating" =>
        IF 2 * coordinateErrors > Len(rawData) /\ coordinateErrors > 10
        THEN /\ pc' = (IF mainAttempt = 3 THEN "Exited" ELSE "Retrying")
             /\ caught' = "rate"
             /\ outputFile' = outputFile
             /\ (mainAttempt = 3 => exitCode' = 1)
        ELSE \/ /\ pc' = "Done"
                /\ exitCode' = 0
                /\ outputFile'.state = "complete"
                /\ FileRecords(outputFile') = restaurants
             \/ /\ pc' = (IF mainAttempt = 3 THEN "Exited" ELSE "Retrying")
                /\ caught' = "write"
                /\ outputFile' \in {outputFile, PartialFile}]_vars

\* a second attempt is being evaluated with 11 coordinate errors in 22 rows:
\* more than 10, but not more than half
C3_Witness ==
    /\ pc = "Evaluating"
    /\ mainAttempt = 2
    /\ coordinateErrors = 11
    /\ Len(rawData) = 22
    /\ validCount = 11

Orchestrator(p) == IF p = "FetchBackoff" THEN "Fetching" ELSE p

\* the transitions of the state machine of the design; a fatal end of the
\* process is not one of its states and is left free
DesignTransitions ==
    {<<"Idle", "Fetching">>, <<"Fetching", "Fetching">>, <<"Fetching", "Processing">>,
     <<"Processing", "Processing">>, <<"Processing", "Evaluating">>,
     <<"Evaluating", "Done">>, <<"Evaluating", "Retrying">>, <<"Retrying", "Fetching">>}

\* C5 (as claimed): the orchestrator only goes Idle -> Fetching -> Processing
\* -> Evaluating -> {Done | Retrying -> Fetching}.
C5_DesignTransitionsOnly ==
    [][pc' \notin {"Exited", "Crashed"}
          => <<Orchestrator(pc), Orchestrator(pc')>> \in DesignTransitions]_vars

\* C5 (amended): as claimed, except that Retrying is also entered from
\* Fetching, when the fetch attempts are exhausted; Done is entered only from
\* Evaluating, and the only step out of Retrying is the end of the 30 s
\* cool-down, to Fetching with the next attempt number.
C5_Transitions ==
    [][/\ pc' \notin {"Exited", "Crashed"}
          => <<Orchestrator(pc), Orchestrator(pc')>>
                \in DesignTransitions \cup {<<"Fetching", "Retrying">>}
       /\ pc = "Retrying"
          => waitTime = 30000 /\ pc' = "Fetching" /\ mainAttempt' = mainAttempt + 1
       /\ pc' = "Retrying" => pc \in {"Fetching", "Evaluating"} /\ mainAttempt < 3
       /\ pc' = "Done" => pc = "Evaluating"]_vars

\* the run waits to retry after the last fetch attempt failed in transport
C5_Witness ==
    /\ pc = "Retrying"
    /\ caught \in {"http", "net"}
    /\ attempt = 5

\* C6: a row whose name or address is empty after trimming leaves no record:
\* every record has a name and an address, and there are never more records
\* than rows with both among the rows taken so far.
C6_RequiredFields ==
    /\ \A r \in AllRecords : r.restaurant # <<>> /\ r.address # <<>>
    /\ Len(restaurants) <= NamedRows(SubSeq(rawData, 1, rowIndex))
    /\ Written => Len(FileRecords(outputFile)) <= NamedRows(sheet)

\* a dataset with a record was written from an export with a nameless row
\* whose other fields all resolve
C6_Witness ==
    /\ pc = "Done"
    /\ Written
    /\ validCount >= 1
    /\ \E k \in 1..Len(rawData) : rawData[k] = RowNoName

\* the name and address of a row or of a record
RowKeys(body) == [k \in 1..Len(body) |-> <<Trim(body[k].Restaurant), Trim(body[k].Address)>>]

RecordKeys(list) == [k \in 1..Len(list) |-> <<list[k].restaurant, list[k].address>>]

\* a is b with some elements left out
RECURSIVE IsSubseq(_, _)
IsSubseq(a, b) ==
    IF a = <<>> THEN TRUE
    ELSE IF b = <<>> THEN FALSE
    ELSE IF Head(a) = Head(b) THEN IsSubseq(Tail(a), Tail(b))
    ELSE IsSubseq(a, Tail(b))

\* C7: the records are in the order of their rows, one record per row at
\* most: the names and addresses of the records are those of the rows taken
\* so far with some rows left out, and the written list is the list built.
C7_RowOrder ==
    /\ IsSubseq(RecordKeys(restaurants), RowKeys(SubSeq(rawData, 1, rowIndex)))
    /\ Written => IsSubseq(RecordKeys(FileRecords(outputFile)), RowKeys(rawData))
    /\ pc = "Done" => FileRecords(outputFile) = restaurants

\* a dataset with the records of two different rows
C7_Witness ==
    /\ pc = "Done"
    /\ Written
    /\ Len(FileRecords(outputFile)) = 2
    /\ FileRecords(outputFile)[1].restaurant # FileRecords(outputFile)[2].restaurant

\* C8: at the end of an attempt validCount + skippedCount is the number of
\* rows and coordinateErrors <= skippedCount; totalRestaurants of a written
\* dataset is the length of its record list.
C8_Counts ==
    /\ pc \in {"Evaluating", "Done"}
          => /\ validCount + skippedCount = Len(rawData)
             /\ coordinateErrors <= skippedCount
    /\ outputFile.state = "complete"
          => outputFile.data[1].totalRestaurants = Len(outputFile.data[1].restaurants)

\* ten rows, two without an address: 8 accepted, 2 rejected, 8 records
C8_Witness ==
    /\ pc = "Done"
    /\ rawData = ScenarioExport
    /\ validCount = 8
    /\ skippedCount = 2
    /\ Written
    /\ Len(FileRecords(outputFile)) = 8

\* an invocation whose collaborators answered as in the one before it, on
\* the same export, has ended with a dataset, as the one before it had
SteadyRerun ==
    /\ run >= 2
    /\ pc = "Done"
    /\ steady
    /\ steadyBefore
    /\ runStartFile.state = "complete"
    /\ runStartFile # EarlierDataset

\* C9 (as claimed): the second of two runs on an unchanged export, with the
\* collaborators answering identically, writes the same bytes as the first.
C9_ByteIdentical == SteadyRerun => outputFile = runStartFile

\* C9 (amended): the two documents have the same totalRestaurants and the
\* same list of records; they differ in version and lastUpdated, which hold
\* the time of the write.
C9_SameRecords ==
    SteadyRerun =>
        /\ outputFile.state = "complete"
        /\ outputFile.data[1].totalRestaurants = runStartFile.data[1].totalRestaurants
        /\ outputFile.data[1].restaurants = runStartFile.data[1].restaurants
        /\ outputFile.data[1].version > runStartFile.data[1].version

\* a second run has rewritten a dataset with a record whose image is a local
\* file
C9_Witness ==
    /\ SteadyRerun
    /\ Len(FileRecords(outputFile)) = 1
    /\ FileRecords(outputFile)[1].tikTokThumbnail = getCachedThumbnailPath(VideoA)

\* C10: a fetch attempt whose response is OK and free of formula errors ends
\* fetchCSVWithRetry with that body; an attempt before the last that fails in
\* transport or has formula errors is followed, after the wait, by the next
\* attempt; no attempt is made once the body is returned.
C10_FetchRetry ==
    [][/\ (pc = "Fetching" /\ response' = "clean")
          => pc' = "Processing" /\ rawData' = sheet /\ errorCount(rawData') = 0 /\ attempt' = attempt
       /\ (pc = "Fetching" /\ response' \in {"corrupt", "http", "net"} /\ attempt < 5)
          => pc' = "FetchBackoff" /\ attempt' = attempt
       /\ pc = "FetchBackoff" => pc' = "Fetching" /\ attempt' = attempt + 1
       /\ pc \in {"Processing", "Evaluating"} => attempt' = attempt /\ response' = response]_vars

\* the third attempt was the first clean one and its body is being processed
C10_Witness ==
    /\ pc = "Processing"
    /\ response = "clean"
    /\ attempt = 3
    /\ rawData = sheet
    /\ Len(rawData) > 0

\* C11: when the last fetch attempt has a body with formula errors, that body
\* is what fetchCSVWithRetry returns: nothing is thrown, main does not enter
\* its catch block, and the rows of the body go through the row loop.
C11_CorruptBodyReturned ==
    [][(pc = "Fetching" /\ response' = "corrupt" /\ attempt = 5)
        => /\ pc' = "Processing"
           /\ \E column \in FormulaColumns : rawData' = Corrupted(sheet, column)
           /\ errorCount(rawData') > 0
           /\ Len(rawData') = Len(sheet)
           /\ caught' = caught
           /\ exitCode' = exitCode
           /\ mainAttempt' = mainAttempt]_vars

\* a record has been built from a row of the body the fifth attempt returned
\* with formula errors
C11_Witness ==
    /\ pc = "Processing"
    /\ response = "corrupt"
    /\ attempt = 5
    /\ errorCount(rawData) > 0
    /\ Len(restaurants) > 0

\* C12: when the last fetch attempt fails in transport or has a status that
\* is not OK, fetchCSVWithRetry throws that failure: main gets no body, its
\* catch block runs, and no row is processed in this attempt of main.
C12_FetchExhausted ==
    [][(pc = "Fetching" /\ response' \in {"http", "net"} /\ attempt = 5)
        => /\ pc' \in {"Retrying", "Exited"}
           /\ caught' = response'
           /\ rawData' = <<>>
           /\ restaurants' = <<>>
           /\ outputFile' = outputFile]_vars

\* the fifth attempt of the first pass failed in transport and main waits to
\* try again
C12_Witness ==
    /\ pc = "Retrying"
    /\ caught = "net"
    /\ response = "net"
    /\ attempt = 5
    /\ mainAttempt = 1
    /\ Len(sheet) > 0

\* C13: the wait after failed attempt k, k < 5, is k times 10 s, whether the
\* attempt failed in transport or had formula errors in its body; the fifth
\* attempt is followed by no wait of fetchCSVWithRetry.
C13_LinearBackoff ==
    /\ pc = "FetchBackoff"
        => /\ attempt \in 1..4
           /\ waitTime = attempt * 10000
           /\ response \in {"corrupt", "http", "net"}
    /\ attempt = 5 => pc # "FetchBackoff"
    /\ attempt \in 1..5

\* the wait after the third attempt, which had formula errors, is 30 s
C13_Witness ==
    /\ pc = "FetchBackoff"
    /\ attempt = 3
    /\ response = "corrupt"
    /\ waitTime = 30000

\* C14: without GOOGLE_SHEETS_URL the only step of the process is the one
\* that ends it with a non-zero status: no fetch of the export, no geocoder
\* call, no attempt of main and no write to a file happens.
C14_NoUrlFatal ==
    [][~csvUrl
        => /\ pc = "Idle"
           /\ pc' = "Crashed"
           /\ exitCode' # 0 /\ exitCode' # -1
           /\ response' = "none"
           /\ caught' = "none"
           /\ ~geoReached'
           /\ mainAttempt' = 1 /\ attempt' = 1
           /\ rawData' = <<>> /\ rowIndex' = 0
           /\ UNCHANGED files]_vars

\* the process has died for want of the URL, the API key being set and a
\* dataset being there
C14_Witness ==
    /\ pc = "Crashed"
    /\ ~csvUrl
    /\ googleApiKey
    /\ exitCode = 1
    /\ outputFile = EarlierDataset
    /\ Len(sheet) > 0

\* C15 (as claimed): with the URL set and GOOGLE_MAPS_API_KEY not set the
\* process does not die at start-up but goes on to fetch the export.
C15_NoCrashWithoutKey == (csvUrl /\ ~googleApiKey) => pc # "Crashed"

\* C16 (as claimed): a row whose GeoCode Script column holds a valid pair is
\* resolved from that pair before any other source is asked: as long as every
\* row taken so far has the required fields and a valid pair in that column,
\* no row has failed coordinate resolution.
C16_HintFirst ==
    (/\ pc \in {"Processing", "Evaluating"}
     /\ \A i \in 1..rowIndex :
            /\ ~MissingRequired(rawData[i])
            /\ validateCoordinates(Trim(rawData[i].GeoCodeScript)) # <<>>)
        => coordinateErrors = 0

C18_AnsweredFromCache ==
    (/\ run > 1
     /\ pc \in {"Processing", "Evaluating"}
     /\ \A i \in 1..rowIndex :
            \E j \in 1..Len(FileRecords(runStartFile)) :
                /\ FileRecords(runStartFile)[j].restaurant = Trim(rawData[i].Restaurant)
                /\ FileRecords(runStartFile)[j].address = Trim(rawData[i].Address))
        => coordinateErrors = 0

C21_NoCollision ==
    [][(/\ validationResult' # validationResult
        /\ validationResult' # <<>>
        /\ validationResult'[1].coordinateSource = "cache")
        => LET row == validationResult'[1].row
               entry == geocodeCache[1].restaurants[generateRestaurantHash(row.Restaurant,
                                                                           row.Address)]
           IN  /\ ToLowerCase(Trim(entry.name)) = ToLowerCase(Trim(row.Restaurant))
               /\ ToLowerCase(Trim(entry.address)) = ToLowerCase(Trim(row.Address))]_vars

\* C22: in a turn of the row loop for a row whose thumbnails/<id>.jpeg is on
\* disk, no oEmbed request and no download is made, the files under
\* thumbnails/ stay as they are, and the record of the row, which is kept
\* once its address is located, has that path as its thumbnail.
C22_ExistingFileReused ==
    [][(/\ pc = "Processing"
        /\ rowIndex' = rowIndex + 1
        /\ Truthy(getCachedThumbnailPath(Trim(rawData[rowIndex + 1].TikTokVideo)))
        /\ getCachedThumbnailPath(Trim(rawData[rowIndex + 1].TikTokVideo)) \in thumbnailFiles)
        => LET row == rawData[rowIndex + 1]
               path == getCachedThumbnailPath(Trim(row.TikTokVideo))
               located == /\ turnCalls'.geocode = "ok"
                          /\ validateCoordinates(geocodeAddress(Trim(row.Address), "up")) # <<>>
           IN  /\ turnCalls'.oembed = "none"
               /\ turnCalls'.download = "none"
               /\ thumbnailFiles' = thumbnailFiles
               /\ located
                    => /\ Len(restaurants') = Len(restaurants) + 1
                       /\ restaurants'[Len(restaurants')].tikTokThumbnail = path
                       /\ restaurants'[Len(restaurants')].restaurant = Trim(row.Restaurant)]_vars

\* the record of a tiktok.com row has been built from the file on disk with
\* the geocoding request as the only request of the turn
C22_Witness ==
    /\ pc = "Processing"
    /\ rowIndex > 0
    /\ Includes(rawData[rowIndex].TikTokVideo, "tiktok.com")
    /\ getCachedThumbnailPath(Trim(rawData[rowIndex].TikTokVideo)) \in thumbnailFiles
    /\ turnCalls = [geocode |-> "ok", oembed |-> "none", download |-> "none"]
    /\ restaurants # <<>>
    /\ restaurants[Len(restaurants)].tikTokThumbnail
            = getCachedThumbnailPath(Trim(rawData[rowIndex].TikTokVideo))

\* C23 (as claimed): a located row with no thumbnails/<id>.jpeg on disk and a
\* TikTok Thumbnail cell that is a well-formed https URL free of formula
\* errors is kept, with that URL as its thumbnail and without a download.
C23_SuppliedUrlAccepted ==
    [][(/\ pc = "Processing"
        /\ rowIndex' = rowIndex + 1
        /\ ~MissingRequired(rawData[rowIndex + 1])
        /\ turnCalls'.geocode = "ok"
        /\ validateCoordinates(geocodeAddress(Trim(rawData[rowIndex + 1].Address), "up")) # <<>>
        /\ getCachedThumbnailPath(Trim(rawData[rowIndex + 1].TikTokVideo)) \notin thumbnailFiles
        /\ hasValidExternalUrl(Trim(rawData[rowIndex + 1].TikTokThumbnail)))
        => /\ Len(restaurants') = Len(restaurants) + 1
           /\ restaurants'[Len(restaurants')].tikTokThumbnail
                = Trim(rawData[rowIndex + 1].TikTokThumbnail)
           /\ turnCalls'.download = "none"]_vars

\* C24: when the oEmbed request has given a thumbnail URL and the download
\* fails, the row is kept with that remote URL as its thumbnail; when a
\* located row has no file on disk and the oEmbed request gives no URL (or is
\* not made), the row is dropped and counted as skipped, not as a coordinate
\* error.
C24_DownloadFallback ==
    [][(pc = "Processing" /\ rowIndex' = rowIndex + 1)
        => LET row == rawData[rowIndex + 1]
               url == Trim(row.TikTokVideo)
               path == getCachedThumbnailPath(url)
           IN  /\ turnCalls'.download = "failed"
                    => /\ Len(restaurants') = Len(restaurants) + 1
                       /\ validCount' = validCount + 1
                       /\ restaurants'[Len(restaurants')].tikTokThumbnail = TikTokOEmbed(url)
                       /\ restaurants'[Len(restaurants')].tikTokThumbnail # path
                       /\ restaurants'[Len(restaurants')].restaurant = Trim(row.Restaurant)
               /\ (/\ ~MissingRequired(row)
                   /\ turnCalls'.geocode = "ok"
                   /\ validateCoordinates(geocodeAddress(Trim(row.Address), "up")) # <<>>
                   /\ path \notin thumbnailFiles
                   /\ turnCalls'.oembed # "ok")
                    => /\ restaurants' = restaurants
                       /\ validCount' = validCount
                       /\ skippedCount' = skippedCount + 1
                       /\ coordinateErrors' = coordinateErrors]_vars

\* a row has been kept with the remote URL after its download failed
C24_Witness ==
    /\ pc = "Processing"
    /\ rowIndex > 0
    /\ turnCalls = [geocode |-> "ok", oembed |-> "ok", download |-> "failed"]
    /\ restaurants # <<>>
    /\ restaurants[Len(restaurants)].tikTokThumbnail = TikTokOEmbed(VideoA)
    /\ getCachedThumbnailPath(VideoA) \notin thumbnailFiles

\* C25: a turn of the loop in which the geocoding request or the oEmbed
\* request fails skips that one row and goes on with the loop: nothing is
\* thrown, the attempt counter and the exit code are untouched and the rows
\* kept so far stay. The attempt is given up for coordinate errors only when
\* more than MinCoordinateErrors rows have failed, never for one.
C25_CollaboratorFailureSkipsRow ==
    [][/\ (/\ rowIndex' = rowIndex + 1
            /\ (turnCalls'.geocode = "failed" \/ turnCalls'.oembed = "failed"))
            => /\ pc' = "Processing"
               /\ caught' = caught
               /\ exitCode' = exitCode
               /\ mainAttempt' = mainAttempt
               /\ restaurants' = restaurants
               /\ validCount' = validCount
               /\ skippedCount' = skippedCount + 1
       /\ (caught' = "rate" /\ caught # "rate")
            => coordinateErrors > MinCoordinateErrors]_vars

\* the geocoding request of the second row has failed after the first row was
\* kept, and the loop goes on
C25_Witness ==
    /\ pc = "Processing"
    /\ turnCalls.geocode = "failed"
    /\ caught = "none"
    /\ Len(restaurants) = 1
    /\ skippedCount = 1
    /\ coordinateErrors = 1

\* a row with a name and an address that the geocoder can place, in a turn
\* whose requests do not fail
C26_Resolvable(row) ==
    /\ Truthy(Trim(row.Restaurant))
    /\ Truthy(Trim(row.Address))
    /\ validateCoordinates(geocodeAddress(Trim(row.Address), "up")) # <<>>
    /\ turnCalls'.geocode # "failed"
    /\ turnCalls'.oembed # "failed"

\* there is a thumbnail for the row: the file of its video is on the disk, or
\* TikTok has a thumbnail for it
C26_HasThumbnail(row) ==
    LET url == Trim(row.TikTokVideo)
        path == getCachedThumbnailPath(url)
    IN  /\ Truthy(path)
        /\ \/ path \in thumbnailFiles
           \/ Includes(url, "tiktok.com") /\ Truthy(TikTokOEmbed(url))

C29_RatingInRange ==
    \A k \in 1..Len(restaurants) :
        restaurants[k].rating >= 0 /\ restaurants[k].rating <= 10

\* C30 as stated: the tags of a record are the parts of the tags cell,
\* trimmed and in lower case, the empty ones left out, and no tag is there
\* twice.
C30_TagsDistinct ==
    \A k \in 1..Len(restaurants) :
        LET tags == restaurants[k].tags
        IN  /\ \A i \in 1..Len(tags) : Truthy(tags[i]) /\ tags[i] = standardizeTag(tags[i])
            /\ \A i, j \in 1..Len(tags) : i # j => tags[i] # tags[j]

\* C31: a row whose Location cell reads "City, Region" is kept like any other
\* row (when it can be placed and has a thumbnail), whether or not its region
\* is in the table; the record's locationData has the region as written, and
\* as fullRegion the name the table has for the region in upper case, or,
\* when the table has none, the region as written.
C31_RegionExpanded ==
    [][rowIndex' = rowIndex + 1
        => LET row == rawData[rowIndex + 1]
               split == SplitComma(row.Location)
               parts == [k \in 1..Len(split) |-> Trim(split[k])]
               rec == restaurants'[Len(restaurants')]
           IN  (Len(parts) >= 2 /\ C26_Resolvable(row) /\ C26_HasThumbnail(row))
                => /\ Len(restaurants') = Len(restaurants) + 1
                   /\ rec.location = row.Location
                   /\ rec.locationData.city = parts[1]
                   /\ rec.locationData.region = parts[2]
                   /\ \A p \in LOCATION_MAPPINGS :
                        p[1] = ToUpperCase(parts[2]) => rec.locationData.fullRegion = p[2]
                   /\ (\A p \in LOCATION_MAPPINGS : p[1] # ToUpperCase(parts[2]))
                        => rec.locationData.fullRegion = parts[2]
                   /\ rec.locationData.fullLocation =
                        parts[1] \o <<",", " ">> \o rec.locationData.fullRegion]_vars

\* a row with the region "zz", which the table does not have, has been kept
\* with "zz" as its full region
C31_Witness ==
    /\ pc = "Processing"
    /\ rowIndex > 0
    /\ rawData[rowIndex].Location = LocationUnknown
    /\ restaurants # <<>>
    /\ restaurants[Len(restaurants)].restaurant = rawData[rowIndex].Restaurant
    /\ restaurants[Len(restaurants)].locationData.region = <<"z", "z">>
    /\ restaurants[Len(restaurants)].locationData.fullRegion = <<"z", "z">>
    /\ restaurants[Len(restaurants)].locationData.fullLocation = <<"R", ",", " ", "z", "z">>

\* ------------------------------------------------------------------------
\* The records and fields of a delimited text, by the count of the quotes
\* ------------------------------------------------------------------------
\* position p of text is outside quotes: an even number of quotes precede it
Unquoted(text, p) == Cardinality({j \in 1..(p - 1) : text[j] = "\""}) % 2 = 0

\* the n-th smallest element of a set of numbers
NthSmallest(S, n) == CHOOSE x \in S : Cardinality({y \in S : y < x}) = n - 1

\* the pieces of text between the positions in cuts
Pieces(text, cuts) ==
    LET marks == cuts \cup {0, Len(text) + 1}
    IN  [n \in 1..(Cardinality(marks) - 1) |->
            SubSeq(text, NthSmallest(marks, n) + 1, NthSmallest(marks, n + 1) - 1)]

\* the sub-sequence of the elements of list that are not blank
RECURSIVE NonBlank(_)
NonBlank(list) ==
    IF list = <<>> THEN <<>>
    ELSE (IF Truthy(Trim(Head(list))) THEN <<Head(list)>> ELSE <<>>) \o NonBlank(Tail(list))

\* the logical records of a text: it is cut at the newlines outside quotes,
\* and blank pieces are no records
LogicalRecords(text) ==
    NonBlank(Pieces(text, {p \in 1..Len(text) : text[p] = "\n" /\ Unquoted(text, p)}))

\* the fields of a record: it is cut at the commas outside quotes
Fields(record) ==
    Pieces(record, {p \in 1..Len(record) : record[p] = "," /\ Unquoted(record, p)})

\* the header names of a text with at least one record
HeaderNames(text) ==
    LET first == Fields(Trim(LogicalRecords(text)[1]))
    IN  [k \in 1..Len(first) |-> Trim(RemoveQuotes(first[k]))]

\* header k is not repeated further right
LastOfItsName(headers, k) == \A j \in (k + 1)..Len(headers) : headers[j] # headers[k]

\* C32: parseCSV returns one row for each logical record after the first
\* (none when there are fewer than two records), in their order, however many
\* newlines the quoted fields hold; the value under a header is the field of
\* the record in the column of that header, the fields being cut at the
\* commas outside quotes only.
C32_OneRowPerRecord ==
    parsed # <<>> =>
        LET data == parsed[1]
            records == LogicalRecords(csvInput)
        IN  /\ Len(data) = (IF Len(records) < 2 THEN 0 ELSE Len(records) - 1)
            /\ \A i \in 1..Len(data) :
                LET headers == HeaderNames(csvInput)
                    fields == Fields(Trim(records[i + 1]))
                IN  \A k \in 1..Len(headers) :
                        (LastOfItsName(headers, k) /\ k <= Len(fields))
                            => data[i][headers[k]] =
                                Trim(CollapseWhitespace(ReplaceNewlines(
                                    RemoveQuotes(fields[k]))))

\* the text h,k / "a<newline>," has given one row, whose first field holds
\* the newline (as a space) and the comma
C32_Witness ==
    /\ csvInput = HeaderLine \o <<"\"", "a", "\n", ",", "\"">>
    /\ parsed = << <<[header \in {<<"h">>, <<"k">>} |->
                        IF header = <<"h">> THEN <<"a", " ", ",">> ELSE <<>>]>> >>

\* C33: no value of a row that parseCSV returns holds a newline; white space
\* stands in it as single spaces, and only between other characters.
C33_NoNewlineInValues ==
    parsed # <<>> =>
        \A i \in 1..Len(parsed[1]) :
            \A header \in DOMAIN parsed[1][i] :
                LET value == parsed[1][i][header]
                IN  /\ \A p \in 1..Len(value) : value[p] # "\n"
                    /\ \A p \in 1..Len(value) : IsSpace(value[p]) => value[p] = " "
                    /\ \A p \in 1..(Len(value) - 1) : ~(IsSpace(value[p]) /\ IsSpace(value[p + 1]))
                    /\ value = Trim(value)

\* the newline inside the quoted field "a<newline>a" has come out as a
\* space
C33_Witness ==
    /\ csvInput = HeaderLine \o <<"\"", "a", "\n", "a", "\"">>
    /\ parsed # <<>>
    /\ Len(parsed[1]) = 1
    /\ parsed[1][1][<<"h">>] = <<"a", " ", "a">>

\* C34: parseCSV returns as many rows as there are logical records after the
\* first; every row has every header as a key, and the headers for which the
\* record has no field, or an empty one, are mapped to the empty string.
C34_RowsPadded ==
    parsed # <<>> =>
        LET data == parsed[1]
            records == LogicalRecords(csvInput)
        IN  /\ Len(data) = (IF Len(records) < 2 THEN 0 ELSE Len(records) - 1)
            /\ \A i \in 1..Len(data) :
                LET headers == HeaderNames(csvInput)
                    fields == Fields(Trim(records[i + 1]))
                IN  /\ DOMAIN data[i] = {headers[k] : k \in 1..Len(headers)}
                    /\ \A k \in 1..Len(headers) :
                        (LastOfItsName(headers, k) /\ (k > Len(fields) \/ RemoveQuotes(fields[k]) = <<>>))
                            => data[i][headers[k]] = <<>>

\* the record "a" under the header h,k has come out as a row with k empty
C34_Witness ==
    /\ csvInput = HeaderLine \o <<"a">>
    /\ parsed = << <<[header \in {<<"h">>, <<"k">>} |->
                        IF header = <<"h">> THEN <<"a">> ELSE <<>>]>> >>

\* the script has ended: main has returned, or process.exit(1) was called
Terminated == pc \in {"Done", "Exited", "Crashed"}

UrlPage(url) == IF url.page # <<>> THEN url.page[1] ELSE 1

UrlSort(url) == IF url.sort # <<>> THEN url.sort[1] ELSE "newest"

UrlTags(url) ==
    IF url.tags # <<>>
    THEN LET tags == TagsOfParam(DecodeParam(url.tags[1])) IN {tags[k] : k \in 1..Len(tags)}
    ELSE {}

SelectedSet(tags) == {tags[k] : k \in 1..Len(tags)}

\* C37 (as claimed): the popstate handler does not call pushState and leaves
\* the session history as it is, and when it returns currentPage, currentSort
\* and selectedTags are the page, sort and tags of the URL of the entry the
\* browser went to.
C37_PopstateKeepsHistory ==
    [][handled' = "popstate"
         => /\ ~pushed'
            /\ entries' = entries
            /\ search' = entries[historyIndex']
            /\ currentPage' = UrlPage(search')
            /\ currentSort' = UrlSort(search')
            /\ SelectedSet(selectedTags') = UrlTags(search')]_vars

\* the names a selected tag may be equal to, without regard to case: the
\* restaurant's tags, its reviewer, its city, its location and its region
NamesOf ==
    [i \in 1..ListSize |->
        LET r == pageRestaurants[i]
        IN  {ToLowerCase(Trim(x)) :
                x \in {r.tags[k] : k \in 1..Len(r.tags)}
                        \cup {r.reviewer, r.locationData.city, r.locationData.fullLocation,
                              r.locationData.fullRegion}}]

\* the restaurants that match all of the tags and are rated at least minimum
MatchingAll(tags, minimum) ==
    LET wanted == {ToLowerCase(Trim(tags[n])) : n \in 1..Len(tags)}
    IN  {i \in 1..ListSize : wanted \subseteq NamesOf[i] /\ pageRestaurants[i].rating >= minimum}

\* C38: when a handler that ends on applyFilters returns with the data
\* loaded, the markers on the map are those of the restaurants that match
\* every selected tag and are rated at least the value of the slider,
\* whatever the page of the list (loadRestaurantData resets the slider after
\* its applyFilters: there the value is the one from before); goToPage, which
\* does not call applyFilters, leaves the markers alone.
C38_MarkersFollowFilter ==
    [][/\ (loaded' /\ handled' # "goToPage")
            => onMap' = MatchingAll(selectedTags',
                                    IF handled' = "load" THEN sliderValue ELSE sliderValue')
       /\ (handled' = "goToPage") => (onMap' = onMap)]_vars

\* a tag is selected that more than one page of restaurants have: the list
\* shows the first 24 of them, the map the markers of all, and no marker of
\* a restaurant without the tag
C38_Witness ==
    /\ handled = "selectTag"
    /\ selectedTags = <<TagBurger>>
    /\ onMap = (1..ListSize) \ {2}
    /\ Cardinality(displayed) = itemsPerPage
    /\ displayed # onMap

\* C39 (as claimed): the URL updateUrl writes for the state of the page, read
\* by initializeFromUrlForNavigation, gives back the selected tags, the sort
\* and the page.
C39_UrlRoundTrip ==
    LET read == initializeFromUrlForNavigation([Now EXCEPT !.search = UrlOfState(Now)])
    IN  /\ SelectedSet(read.selectedTags) = SelectedSet(selectedTags)
        /\ read.currentSort = currentSort
        /\ read.currentPage = currentPage

====
